---------------------------- MODULE Spec2Model ----------------------------
(***************************************************************************)
(* Fuzzy sets as families of alpha-cuts (package fuzzy_set_arythmetic).    *)
(*                                                                         *)
(* Numbers.  A breakpoint is modelled by an integer coordinate together    *)
(* with the name of its Python type ("int", "float", ...); a Border keeps  *)
(* the type of its first element in dtrial, as the code does.  A level is  *)
(* modelled by the integer k standing for the Alpha value k / LevelScale.  *)
(*                                                                         *)
(* Exceptions.  An operation that can raise returns a record whose field   *)
(* err is "none" on a normal return and names the error otherwise.        *)
(***************************************************************************)
EXTENDS Integers, Sequences, FiniteSets, TLC

\* ------------------------------------------------------------------ bounds

\* Coordinates of the breakpoints of the cuts handed to FuzzySet are 0..CoordMax.
CoordMax == 2
\* The cuts of an iterable handed to add_alpha_cut have at most MaxIterIntervals
\* intervals each (a cut handed over alone has any number).
MaxIterIntervals == 1
\* Levels are k / LevelScale for k in 0..LevelScale.
LevelScale == 2
\* add_alpha_cut is called with one cut or an iterable of at most MaxAdd cuts.
MaxAdd == 2
\* FuzzySet(...) is called with at most MaxBuild cuts.
MaxBuild == 3
\* Border.uncover is called with Borders of at most UMaxLen breakpoints, each
\* in 0..UCoordMax.
UMaxLen == 2
UCoordMax == 2
\* The operands of add_with_tnorm and sub_with_tnorm hold at most AMaxCuts
\* cuts each, with breakpoints in 0..ACoordMax.
AMaxCuts == 2
ACoordMax == 1
TScale == 4
TParamMax == 1
AScale == 2
AValMax == 3
FMaxLevels == 2
FMaxPoints == 3
FCoordMax == 2

Levels == 0..LevelScale
Coords == 0..CoordMax

\* ------------------------------------------------------------------ helpers

Raise(e) == [err |-> e]

\* The messages of the errors the claims name.
DuplicateLevel == "ValueError: You have two Alpha-cuts with same level"
Obstructed == "ValueError: Fuzzy set obstructed!"
NotFound == "ValueError: There is no alpha-cut level in fuzzy set."
EndsBeforeStart == "ValueError: Improper borders. Some alpha-cut ends before start!"
LengthError == "ValueError: Borders must have same length"
Ok(v) == [err |-> "none", val |-> v]


RECURSIVE SeqsUpTo(_, _)
\* All sequences over S of length 0..n.
SeqsUpTo(S, n) ==
    IF n = 0 THEN {<<>>}
    ELSE LET shorter == SeqsUpTo(S, n - 1)
         IN  shorter \cup {Append(s, x) : s \in {t \in shorter : Len(t) = n - 1}, x \in S}

Range(s) == {s[i] : i \in 1..Len(s)}

\* ------------------------------------------------------------------ numbers
\* The value of an Alpha is a rational number num / den in lowest terms with
\* den > 0, whatever its Python type; float and Decimal arithmetic is taken
\* as exact.

Abs(x) == IF x < 0 THEN -x ELSE x

RECURSIVE GCD(_, _)
GCD(a, b) == IF b = 0 THEN a ELSE GCD(b, a % b)

Rat(n, d) ==
    LET s == IF d < 0 THEN -1 ELSE 1
        g == GCD(Abs(n), Abs(d))
    IN  [num |-> (s * n) \div g, den |-> (s * d) \div g]

RatAdd(x, y) == Rat(x.num * y.den + y.num * x.den, x.den * y.den)
RatSub(x, y) == Rat(x.num * y.den - y.num * x.den, x.den * y.den)
RatMul(x, y) == Rat(x.num * y.num, x.den * y.den)
RatDiv(x, y) == Rat(x.num * y.den, x.den * y.num)
RatLess(x, y) == x.num * y.den < y.num * x.den
RatLeq(x, y) == x.num * y.den <= y.num * x.den

RECURSIVE RatPowInt(_, _)
\* x ** k for an integer k >= 0.
RatPowInt(x, k) == IF k = 0 THEN Rat(1, 1) ELSE RatMul(x, RatPowInt(x, k - 1))

\* ------------------------------------------------------------------ Alpha

AlphaTypes == {"float", "Decimal", "Fraction"}

AlphaTypeError == "TypeError: Alphas has another types"
RangeError == "ValueError: Alpha-cut level must be between 0 and 1."
DivideByZero == "ValueError: Cannot divide by 0"

\* Alpha._type_check on an object with the fields given: "none" when it
\* returns, the error raised otherwise.
type_check(value, dtype, small_check) ==
    IF dtype \notin AlphaTypes
    THEN "TypeError: Alpha value must be a float, Decimal or Fraction"
    ELSE IF ~small_check /\ ~(RatLeq(Rat(0, 1), value) /\ RatLeq(value, Rat(1, 1)))
    THEN RangeError
    ELSE "none"

\* Alpha.__init__(value, small_check) for a value of the Python type dtype.
Alpha(value, dtype, small_check) ==
    IF type_check(value, dtype, small_check) # "none"
    THEN Raise(type_check(value, dtype, small_check))
    ELSE Ok([value |-> value, small_check |-> small_check, dtype |-> dtype])

\* The setter of Alpha.small_check: the object it leaves behind, and the
\* error when it raised.
set_small_check(self, small_check) ==
    [err |-> type_check(self.value, self.dtype, small_check),
     val |-> [self EXCEPT !.small_check = small_check]]

\* x ** e in Python for two numbers of the type dtype: the value and its
\* type, or the error raised.  Defined where the result is a rational
\* number: for an integer e, and for x = 0 and x = 1 (not for Decimal 0 to a
\* negative power, which is Infinity).
py_pow(x, e, dtype) ==
    LET other_type == IF dtype = "Fraction" /\ e.den # 1 THEN "float" ELSE dtype
    IN  CASE e.num < 0 /\ x.num = 0 /\ dtype # "Decimal" ->
                Raise("ZeroDivisionError")
          [] e.num = 0 /\ x.num = 0 /\ dtype = "Decimal" ->
                Raise("decimal.InvalidOperation")
          [] e.num = 0 /\ ~(x.num = 0 /\ dtype = "Decimal") ->
                Ok([value |-> Rat(1, 1), dtype |-> dtype])
          [] e.num > 0 /\ e.den = 1 ->
                Ok([value |-> RatPowInt(x, e.num), dtype |-> dtype])
          [] e.num < 0 /\ e.den = 1 /\ x.num # 0 ->
                Ok([value |-> RatPowInt(Rat(x.den, x.num), -e.num), dtype |-> dtype])
          [] e.num > 0 /\ e.den # 1 /\ x.num = 0 ->
                Ok([value |-> Rat(0, 1), dtype |-> other_type])
          [] e.num # 0 /\ e.den # 1 /\ x = Rat(1, 1) ->
                Ok([value |-> Rat(1, 1), dtype |-> other_type])

\* py_pow is defined for the operands.
PowModelled(x, e, dtype) ==
    \/ e.den = 1 /\ ~(e.num < 0 /\ x.num = 0 /\ dtype = "Decimal")
    \/ x = Rat(1, 1)
    \/ x.num = 0 /\ ~(e.num < 0 /\ dtype = "Decimal")

BinaryOperators == {"add", "sub", "mul", "truediv", "pow"}

\* The lambda handed to _check_and_do_given_operation by the operator named.
operation(name, oper1, oper2, dtype) ==
    CASE name = "add" -> Ok([value |-> RatAdd(oper1, oper2), dtype |-> dtype])
      [] name = "sub" -> Ok([value |-> RatSub(oper1, oper2), dtype |-> dtype])
      [] name = "mul" -> Ok([value |-> RatMul(oper1, oper2), dtype |-> dtype])
      [] name = "truediv" -> Ok([value |-> RatDiv(oper1, oper2), dtype |-> dtype])
      [] name = "pow" -> py_pow(oper1, oper2, dtype)

\* Alpha(operation(oper1, oper2), True) for what the operation returned.
alpha_of_operation(r) ==
    IF r.err # "none" THEN Raise(r.err)
    ELSE Alpha(r.val.value, r.val.dtype, TRUE)

\* Alpha._check_and_do_given_operation(self, other, operation, ...) for an
\* Alpha other.
check_and_do_given_operation(self, other, name) ==
    IF self.dtype # other.dtype THEN Raise(AlphaTypeError)
    ELSE alpha_of_operation(operation(name, self.value, other.value, self.dtype))

\* Alpha.__truediv__(self, other).
alpha_truediv(self, other) ==
    IF other.value.num = 0 THEN Raise(DivideByZero)
    ELSE check_and_do_given_operation(self, other, "truediv")

\* Alpha.__add__, __sub__, __mul__, __truediv__ and __pow__.
alpha_binary(name, self, other) ==
    IF name = "truediv" THEN alpha_truediv(self, other)
    ELSE check_and_do_given_operation(self, other, name)

\* Alpha.__eq__(self, other) for an Alpha other.
alpha_eq(self, other) ==
    IF self.dtype # other.dtype
    THEN Raise("TypeError: Cannot compare")
    ELSE Ok(self.value = other.value)

\* Alpha.__lt__ and Alpha.__gt__.
alpha_lt(self, other) == RatLess(self.value, other.value)
alpha_gt(self, other) == RatLess(other.value, self.value)

\* ------------------------------------------------------------------ Tnorm
\* The t-norm classes on Alpha objects.  Each operator is __call__ of the
\* class it is named after and returns Ok(an Alpha) or the error raised.

\* Tnorm._types_validation for two Alphas: the error raised, or "none".
types_validation(a, b) ==
    IF a.dtype # b.dtype THEN AlphaTypeError ELSE "none"

\* self.zero and self.one as Tnorm._set_zero_one_alpha sets them.
zero_alpha(a) == [value |-> Rat(0, 1), small_check |-> FALSE, dtype |-> a.dtype]
one_alpha(a) == [value |-> Rat(1, 1), small_check |-> FALSE, dtype |-> a.dtype]

\* The builtins min(x, y) and max(x, y) on Alphas, by __lt__ and __gt__.
py_min(x, y) == IF alpha_lt(y, x) THEN y ELSE x
py_max(x, y) == IF alpha_gt(y, x) THEN y ELSE x

\* r <operator> other, where r is what an earlier operation returned.
then_binary(name, r, other) ==
    IF r.err # "none" THEN r ELSE alpha_binary(name, r.val, other)

\* x <operator> r, where r is what an earlier operation returned.
binary_then(name, x, r) ==
    IF r.err # "none" THEN r ELSE alpha_binary(name, x, r.val)

\* r1 <operator> r2 for the results of two earlier operations, left first.
both_binary(name, r1, r2) ==
    IF r1.err # "none" THEN r1 ELSE binary_then(name, r1.val, r2)

\* r.small_check = False on what an earlier operation returned.
then_check(r) ==
    IF r.err # "none" THEN r
    ELSE IF set_small_check(r.val, FALSE).err # "none"
    THEN Raise(set_small_check(r.val, FALSE).err)
    ELSE Ok(set_small_check(r.val, FALSE).val)

\* max(self.zero, r) on what an earlier statement left in r.
then_max_zero(a, r) ==
    IF r.err # "none" THEN r ELSE Ok(py_max(zero_alpha(a), r.val))

Min(a, b) == Ok(py_min(a, b))

Max(a, b) == Ok(py_max(a, b))

Product(a, b) == alpha_binary("mul", a, b)

Lukasiewicz(a, b) ==
    then_max_zero(a,
        then_check(then_binary("sub", alpha_binary("add", a, b), one_alpha(a))))

Drastic(a, b) ==
    IF alpha_eq(a, one_alpha(a)).val THEN Ok(b)
    ELSE IF alpha_eq(b, one_alpha(a)).val THEN Ok(a)
    ELSE Ok(zero_alpha(a))

\* a + b > one, the condition of Nilpotent.
sum_exceeds_one(a, r) ==
    IF r.err # "none" THEN r
    ELSE IF alpha_gt(r.val, one_alpha(a)) THEN Ok(TRUE) ELSE Ok(FALSE)

Nilpotent(a, b) ==
    IF sum_exceeds_one(a, alpha_binary("add", a, b)).err # "none"
    THEN sum_exceeds_one(a, alpha_binary("add", a, b))
    ELSE IF sum_exceeds_one(a, alpha_binary("add", a, b)).val
    THEN Min(a, b)
    ELSE Ok(zero_alpha(a))

\* The quotient of Hamacher: (a * b) / (a + b - a * b).
hamacher_quotient(a, b) ==
    both_binary("truediv",
        alpha_binary("mul", a, b),
        both_binary("sub", alpha_binary("add", a, b), alpha_binary("mul", a, b)))

\* A Hamacher without the case for a = b = 0.
Hamacher_unguarded(a, b) == hamacher_quotient(a, b)

Hamacher(a, b) ==
    IF alpha_eq(a, b).val /\ alpha_eq(a, zero_alpha(a)).val
    THEN Ok(zero_alpha(a))
    ELSE hamacher_quotient(a, b)

\* The parameter of a t-norm: None, one of the two infinities, or a finite
\* float p (an integer here).
NoParameter == [kind |-> "None"]
NegInf == [kind |-> "-inf"]
PosInf == [kind |-> "+inf"]
Finite(p) == [kind |-> "finite", p |-> p]

\* self.par_alpha of Sklar: Alpha(Decimal(p), True), Alpha(Fraction(p), True)
\* or Alpha(p, True).  Fraction() of an infinity raises OverflowError; the
\* value kept for an infinite Decimal or float is never read and is 0 here.
par_alpha(a, parameter) ==
    IF parameter.kind # "finite"
    THEN IF a.dtype = "Fraction" THEN Raise("OverflowError")
         ELSE Alpha(Rat(0, 1), a.dtype, TRUE)
    ELSE Alpha(Rat(parameter.p, 1), a.dtype, TRUE)

\* a ** par + b ** par - one for a finite par # 0.
sklar_base(a, b, par) ==
    then_binary("sub",
        both_binary("add", alpha_binary("pow", a, par),
                           alpha_binary("pow", b, par)),
        one_alpha(a))

\* (a ** par + b ** par - one) ** (one / par) for a finite par # 0.
sklar_power(a, b, par) ==
    both_binary("pow", sklar_base(a, b, par),
                       alpha_binary("truediv", one_alpha(a), par))

\* Max(self.zero, r)() on what an earlier statement left in r.
then_Max_zero(a, r) ==
    IF r.err # "none" THEN r
    ELSE IF types_validation(zero_alpha(a), r.val) # "none"
    THEN Raise(types_validation(zero_alpha(a), r.val))
    ELSE Max(zero_alpha(a), r.val)

\* The branches of Sklar.__call__ once self.par_alpha is built.
sklar_branches(a, b, parameter, par) ==
    CASE parameter.kind = "-inf" -> Min(a, b)
      [] parameter.kind = "+inf" -> Drastic(a, b)
      [] parameter.kind = "finite" /\ parameter.p < 0 ->
            then_check(sklar_power(a, b, par))
      [] parameter.kind = "finite" /\ parameter.p = 0 -> Product(a, b)
      [] parameter.kind = "finite" /\ parameter.p > 0 ->
            then_Max_zero(a, then_check(sklar_power(a, b, par)))

\* Sklar.__call__ from the point where self.par_alpha is built.
sklar_with(a, b, parameter, r) ==
    IF r.err # "none" THEN r ELSE sklar_branches(a, b, parameter, r.val)

Sklar(a, b, parameter) ==
    IF parameter.kind = "None"
    THEN Raise("AttributeError: Sklar's T-norm parameter can't be None.")
    ELSE sklar_with(a, b, parameter, par_alpha(a, parameter))

TnormClasses == {"Min", "Max", "Product", "Lukasiewicz", "Drastic",
                 "Nilpotent", "Hamacher", "Sklar"}

\* cls(a, b, parameter)(): Tnorm.__post_init__, then __call__ of the class.
call_tnorm(cls, a, b, parameter) ==
    IF types_validation(a, b) # "none" THEN Raise(types_validation(a, b))
    ELSE CASE cls = "Min" -> Min(a, b)
           [] cls = "Max" -> Max(a, b)
           [] cls = "Product" -> Product(a, b)
           [] cls = "Lukasiewicz" -> Lukasiewicz(a, b)
           [] cls = "Drastic" -> Drastic(a, b)
           [] cls = "Nilpotent" -> Nilpotent(a, b)
           [] cls = "Hamacher" -> Hamacher(a, b)
           [] cls = "Sklar" -> Sklar(a, b, parameter)

\* ------------------------------------------------------------------ Border

\* Border.__init__ with _set_border and _check.  border is the sequence of
\* coordinates and dtypes the sequence of their Python types.
Border(border, dtypes, covered, side) ==
    IF Len(border) = 0 THEN Raise("ValueError: border cannot be empty")
    ELSE IF \E i \in 1..Len(dtypes) : dtypes[i] # dtypes[1]
    THEN Raise("TypeError: All elements of border must be the same type")
    ELSE Ok([borders |-> border,
             covered |-> covered \/ (\E i \in 1..(Len(border) - 1) : border[i] >= border[i + 1]),
             side    |-> side,
             dtrial  |-> dtypes[1]])

\* The types of the elements of a Border that exists: all are its dtrial.
TypesOf(b) == [i \in 1..Len(b.borders) |-> b.dtrial]

\* Border.get_sab_list: one SaB (side, coord) per breakpoint.
get_sab_list(b) ==
    IF b.side = "NONE" THEN Raise("TypeError: Cannot get sab list from None side value")
    ELSE Ok([i \in 1..Len(b.borders) |->
                [side |-> b.side, coord |-> b.borders[i], dtype |-> b.dtrial]])

RECURSIVE InsertBeforeEqual(_, _)
\* A sort that is not stable: x put before the elements of equal coord.
InsertBeforeEqual(sorted, x) ==
    IF sorted = <<>> THEN <<x>>
    ELSE IF Head(sorted).coord < x.coord
         THEN <<Head(sorted)>> \o InsertBeforeEqual(Tail(sorted), x)
         ELSE <<x>> \o sorted

RECURSIVE InsertByCoord(_, _)
\* x put behind every element of the sorted list whose coord is <= x.coord.
InsertByCoord(sorted, x) ==
    IF sorted = <<>> THEN <<x>>
    ELSE IF Head(sorted).coord <= x.coord
         THEN <<Head(sorted)>> \o InsertByCoord(Tail(sorted), x)
         ELSE <<x>> \o sorted

RECURSIVE SortByCoord(_)
\* list.sort(key = lambda x: x.coord): a stable sort, ascending.
SortByCoord(ops) ==
    IF ops = <<>> THEN <<>>
    ELSE InsertByCoord(SortByCoord(SubSeq(ops, 1, Len(ops) - 1)), ops[Len(ops)])

RECURSIVE SweepEveryLeft(_, _, _, _, _)
\* A loop that keeps every LEFT point, also the ones met inside an interval.
SweepEveryLeft(ops, i, numerator, new_left, new_right) ==
    IF i > Len(ops) THEN [err |-> "none", left |-> new_left, right |-> new_right]
    ELSE LET sab == ops[i]
             n1  == IF sab.side = "LEFT" THEN numerator + 1 ELSE numerator
             nl  == IF sab.side = "LEFT" THEN Append(new_left, sab) ELSE new_left
             n2  == IF sab.side = "RIGHT" THEN n1 - 1 ELSE n1
             nr  == IF sab.side = "RIGHT" /\ n2 = 0 THEN Append(new_right, sab) ELSE new_right
         IN  IF n2 < 0
             THEN Raise(EndsBeforeStart)
             ELSE SweepEveryLeft(ops, i + 1, n2, nl, nr)

RECURSIVE Sweep(_, _, _, _, _)
\* The loop of Border.uncover over op_list from position i on.
Sweep(ops, i, numerator, new_left, new_right) ==
    IF i > Len(ops) THEN [err |-> "none", left |-> new_left, right |-> new_right]
    ELSE LET sab == ops[i]
             n1  == IF sab.side = "LEFT" THEN numerator + 1 ELSE numerator
             nl  == IF sab.side = "LEFT" /\ n1 = 1 THEN Append(new_left, sab) ELSE new_left
             n2  == IF sab.side = "RIGHT" THEN n1 - 1 ELSE n1
             nr  == IF sab.side = "RIGHT" /\ n2 = 0 THEN Append(new_right, sab) ELSE new_right
         IN  IF n2 < 0
             THEN Raise(EndsBeforeStart)
             ELSE Sweep(ops, i + 1, n2, nl, nr)

CoordsOf(sabs) == [i \in 1..Len(sabs) |-> sabs[i].coord]
DtypesOf(sabs) == [i \in 1..Len(sabs) |-> sabs[i].dtype]

\* uncover without its check of the two lengths.
uncover_unchecked_length(left, right) ==
    LET ls == get_sab_list(left)
        rs == get_sab_list(right)
    IN  IF ls.err # "none" THEN Raise(ls.err)
        ELSE IF rs.err # "none" THEN Raise(rs.err)
        ELSE LET sw == Sweep(SortByCoord(ls.val \o rs.val), 1, 0, <<>>, <<>>)
             IN  IF sw.err # "none" THEN Raise(sw.err)
                 ELSE LET nl == Border(CoordsOf(sw.left), DtypesOf(sw.left), FALSE, "LEFT")
                          nr == Border(CoordsOf(sw.right), DtypesOf(sw.right), FALSE, "RIGHT")
                      IN  IF nl.err # "none" THEN Raise(nl.err)
                          ELSE IF nr.err # "none" THEN Raise(nr.err)
                          ELSE Ok(<<nl.val, nr.val>>)

\* Border.uncover(left, right).  On a normal return val is <<left, right>>.
uncover(left, right) ==
    IF Len(left.borders) # Len(right.borders)
    THEN Raise(LengthError)
    ELSE LET ls == get_sab_list(left)
             rs == get_sab_list(right)
         IN  IF ls.err # "none" THEN Raise(ls.err)
             ELSE IF rs.err # "none" THEN Raise(rs.err)
             ELSE LET sw == Sweep(SortByCoord(ls.val \o rs.val), 1, 0, <<>>, <<>>)
                  IN  IF sw.err # "none" THEN Raise(sw.err)
                      ELSE LET nl == Border(CoordsOf(sw.left), DtypesOf(sw.left), FALSE, "LEFT")
                               nr == Border(CoordsOf(sw.right), DtypesOf(sw.right), FALSE, "RIGHT")
                           IN  IF nl.err # "none" THEN Raise(nl.err)
                               ELSE IF nr.err # "none" THEN Raise(nr.err)
                               ELSE Ok(<<nl.val, nr.val>>)

\* A validity check that does not look at the covered flags.
are_left_right_ignoring_covered(left, right) ==
    IF left.dtrial # right.dtrial
    THEN "TypeError: Borders must have the same data type"
    ELSE IF Len(left.borders) # Len(right.borders)
    THEN "ValueError: Borders must have the same length"
    ELSE IF ~(\A i \in 1..Len(left.borders) : left.borders[i] <= right.borders[i])
    THEN "ValueError: Alpha_cut length cant be negative"
    ELSE IF ~(\A i \in 1..(Len(left.borders) - 1) : left.borders[i + 1] >= right.borders[i])
    THEN "ValueError: Two parts of alpha-cut can't cover."
    ELSE "none"

\* Border.are_left_right(left, right): "none" when the two Borders make an
\* alpha-cut, the error raised otherwise.
are_left_right(left, right) ==
    IF left.dtrial # right.dtrial
    THEN "TypeError: Borders must have the same data type"
    ELSE IF Len(left.borders) # Len(right.borders)
    THEN "ValueError: Borders must have the same length"
    ELSE IF ~(\A i \in 1..Len(left.borders) : left.borders[i] <= right.borders[i])
    THEN "ValueError: Alpha_cut length cant be negative"
    ELSE IF ~(\A i \in 1..(Len(left.borders) - 1) : left.borders[i + 1] >= right.borders[i])
    THEN "ValueError: Two parts of alpha-cut can't cover."
    ELSE IF left.covered \/ right.covered
    THEN "ValueError: Borders must be not covered to be borders of fuzzy-set."
    ELSE "none"


\* Border.__mul__(self, other): every product, as a covered Border without side.
border_mul(self, other) ==
    IF other.dtrial # self.dtrial
    THEN Raise("TypeError: To multiplied borders must have the same data type")
    ELSE IF Len(other.borders) # 1 /\ Len(self.borders) # 1
    THEN Raise("ValueError: You can't multiply by Border with more than one border")
    ELSE LET m == Len(self.borders)
             n == Len(other.borders)
             result == [k \in 1..(m * n) |->
                           self.borders[((k - 1) \div n) + 1] * other.borders[((k - 1) % n) + 1]]
         IN  Border(result, [k \in 1..(m * n) |-> self.dtrial], TRUE, "NONE")

\* Border.__sub__(self, other): every pairwise difference, self-major, as a
\* covered Border without side.
border_sub(self, other) ==
    IF other.dtrial # self.dtrial
    THEN Raise("TypeError: To subtract borders must have the same data type")
    ELSE LET m == Len(self.borders)
             n == Len(other.borders)
             result == [k \in 1..(m * n) |->
                           self.borders[((k - 1) \div n) + 1] - other.borders[((k - 1) % n) + 1]]
         IN  Border(result, [k \in 1..(m * n) |-> self.dtrial], TRUE, "NONE")

\* An addition that leaves the covered flag to the order of the sums.
border_add_flag_unset(self, other) ==
    IF other.dtrial # self.dtrial
    THEN Raise("TypeError: To add borders must have the same data type")
    ELSE LET m == Len(self.borders)
             n == Len(other.borders)
             result == [k \in 1..(m * n) |->
                           self.borders[((k - 1) \div n) + 1] + other.borders[((k - 1) % n) + 1]]
         IN  Border(result, [k \in 1..(m * n) |-> self.dtrial], FALSE, "NONE")

\* An addition that sums the breakpoints position by position, not every pair.
border_add_zipped(self, other) ==
    IF other.dtrial # self.dtrial
    THEN Raise("TypeError: To add borders must have the same data type")
    ELSE LET n == IF Len(self.borders) < Len(other.borders)
                  THEN Len(self.borders) ELSE Len(other.borders)
         IN  Border([k \in 1..n |-> self.borders[k] + other.borders[k]],
                    [k \in 1..n |-> self.dtrial], TRUE, "NONE")

\* Border.__add__(self, other): every pairwise sum, self-major, as a covered
\* Border without side.
border_add(self, other) ==
    IF other.dtrial # self.dtrial
    THEN Raise("TypeError: To add borders must have the same data type")
    ELSE LET m == Len(self.borders)
             n == Len(other.borders)
             result == [k \in 1..(m * n) |->
                           self.borders[((k - 1) \div n) + 1] + other.borders[((k - 1) % n) + 1]]
         IN  Border(result, [k \in 1..(m * n) |-> self.dtrial], TRUE, "NONE")

\* ------------------------------------------------------------------ AlphaCut

\* AlphaCut.__init__(level, left_borders, right_borders) with _borders_check,
\* for a level given as a number (Alpha(level) checks its range) and Border
\* arguments.
AlphaCut(level, left_borders, right_borders) ==
    IF level \notin Levels
    THEN Raise("ValueError: Alpha-cut level must be between 0 and 1.")
    ELSE LET l == IF left_borders.side = "NONE"
                  THEN [left_borders EXCEPT !.side = "LEFT"] ELSE left_borders
             r == IF right_borders.side = "NONE"
                  THEN [right_borders EXCEPT !.side = "RIGHT"] ELSE right_borders
             e == are_left_right(l, r)
         IN  IF e # "none" THEN Raise(e)
             ELSE Ok([level |-> level, left_borders |-> l, right_borders |-> r])

\* An index search that falls back on the first interval of wide, not the last.
index_to_check_first(wide, left_border) ==
    LET hits == {k \in 1..Len(wide.left_borders.borders) :
                    wide.left_borders.borders[k] >= left_border}
    IN  IF hits = {} THEN 1
        ELSE CHOOSE k \in hits : \A j \in hits : k <= j

\* The index AlphaCut.__contains__ looks at for a left border of narrow: the
\* first index of wide whose left border is >= left_border, else the last (-1).
index_to_check(wide, left_border) ==
    LET hits == {k \in 1..Len(wide.left_borders.borders) :
                    wide.left_borders.borders[k] >= left_border}
    IN  IF hits = {} THEN Len(wide.left_borders.borders)
        ELSE CHOOSE k \in hits : \A j \in hits : k <= j

\* AlphaCut.__contains__(self = wide, narrow) for an AlphaCut narrow.
contains(wide, narrow) ==
    IF narrow.left_borders.borders[1] < wide.left_borders.borders[1] THEN FALSE
    ELSE \A i \in 1..Len(narrow.left_borders.borders) :
            narrow.right_borders.borders[i]
                <= wide.right_borders.borders[index_to_check(wide, narrow.left_borders.borders[i])]

\* AlphaCut.__contains__(self, narrow) for a point narrow.
contains_point(self, x) ==
    \E i \in 1..Len(self.left_borders.borders) :
        self.left_borders.borders[i] <= x /\ x <= self.right_borders.borders[i]

\* AlphaCut.__eq__ (Border.__eq__ compares the breakpoints only).
cut_eq(a, b) ==
    /\ a.level = b.level
    /\ a.left_borders.borders = b.left_borders.borders
    /\ a.right_borders.borders = b.right_borders.borders

\* The last line of AlphaCut.invert: the AlphaCut built from what uncover
\* returned, or the error uncover raised.
cut_of_uncovered(level, u) ==
    IF u.err # "none" THEN Raise(u.err)
    ELSE AlphaCut(level, u.val[1], u.val[2])

\* AlphaCut.invert after its two multiplications: new_left and new_right get
\* their sides and are uncovered.
invert_negated(level, new_left, new_right) ==
    IF new_left.err # "none" THEN Raise(new_left.err)
    ELSE IF new_right.err # "none" THEN Raise(new_right.err)
    ELSE cut_of_uncovered(level,
            uncover([new_left.val EXCEPT !.side = "LEFT"],
                    [new_right.val EXCEPT !.side = "RIGHT"]))

\* An inversion that negates the breakpoints and keeps the roles of the two
\* Borders.
invert_no_swap(self) ==
    LET minus_one == Border(<<-1>>, <<self.left_borders.dtrial>>, FALSE, "NONE").val
    IN  invert_negated(self.level,
            border_mul(self.left_borders, minus_one),
            border_mul(self.right_borders, minus_one))

\* AlphaCut.invert(self).
invert(self) ==
    LET minus_one == Border(<<-1>>, <<self.left_borders.dtrial>>, FALSE, "NONE").val
    IN  invert_negated(self.level,
            border_mul(self.right_borders, minus_one),
            border_mul(self.left_borders, minus_one))

\* AlphaCut.from_bordersides(level, said_and_border).
from_bordersides(level, said_and_border) ==
    LET left  == SelectSeq(said_and_border, LAMBDA sab : sab.side = "LEFT")
        right == SelectSeq(said_and_border, LAMBDA sab : sab.side # "LEFT")
        bl == Border(CoordsOf(left), DtypesOf(left), TRUE, "LEFT")
        br == Border(CoordsOf(right), DtypesOf(right), TRUE, "RIGHT")
    IN  IF bl.err # "none" THEN Raise(bl.err)
        ELSE IF br.err # "none" THEN Raise(br.err)
        ELSE LET u == uncover(bl.val, br.val)
             IN  IF u.err # "none" THEN Raise(u.err)
                 ELSE AlphaCut(level, u.val[1], u.val[2])

\* ------------------------------------------------------------------ FuzzySet
\* FuzzySet._alpha_cuts, a dict from level to AlphaCut, is the sequence of its
\* values in the dict's order; the key of a value is its level.

LevelsIn(cuts) == {cuts[i].level : i \in 1..Len(cuts)}

RECURSIVE InsertByLevel(_, _)
InsertByLevel(sorted, x) ==
    IF sorted = <<>> THEN <<x>>
    ELSE IF Head(sorted).level >= x.level
         THEN <<Head(sorted)>> \o InsertByLevel(Tail(sorted), x)
         ELSE <<x>> \o sorted

RECURSIVE sort_a_cuts(_)
\* FuzzySet._sort_a_cuts: the dict rebuilt in descending order of level.
sort_a_cuts(cuts) ==
    IF cuts = <<>> THEN <<>>
    ELSE InsertByLevel(sort_a_cuts(SubSeq(cuts, 1, Len(cuts) - 1)), cuts[Len(cuts)])

\* A nesting check that compares every pair of cuts, not only the adjacent ones.
check_all_pairs(cuts) ==
    \A k, m \in 1..Len(cuts) : k < m => contains(cuts[m], cuts[k])

\* FuzzySet._check_alpha_levels_membership: TRUE when it returns, FALSE when
\* it raises "Fuzzy set obstructed!".
check_alpha_levels_membership(cuts) ==
    \A k \in 1..(Len(cuts) - 1) : contains(cuts[k + 1], cuts[k])

RECURSIVE insert_cuts(_, _, _)
\* The insertion loop of __init__ and add_alpha_cut from position i on: the
\* dict it leaves behind, and the error when it raised.
insert_cuts(stored, cuts, i) ==
    IF i > Len(cuts) THEN [err |-> "none", map |-> stored]
    ELSE IF cuts[i].level \in LevelsIn(stored)
    THEN [err |-> DuplicateLevel, map |-> stored]
    ELSE insert_cuts(Append(stored, cuts[i]), cuts, i + 1)

\* FuzzySet.add_alpha_cut(self, alpha_cuts) on the dict stored: the dict the
\* call leaves in self, and the error when it raised.
add_alpha_cut(stored, cuts) ==
    LET ins == insert_cuts(stored, cuts, 1)
    IN  IF ins.err # "none" THEN ins
        ELSE LET sorted == sort_a_cuts(ins.map)
             IN  IF check_alpha_levels_membership(sorted)
                 THEN [err |-> "none", map |-> sorted]
                 ELSE [err |-> Obstructed, map |-> sorted]

\* FuzzySet.__init__(self, alpha_cuts): the same steps on an empty dict.
FuzzySet(cuts) == add_alpha_cut(<<>>, cuts)

\* A removal that pops the last entry of the dict, not the entry of the level.
remove_last_item(stored, level, is_alpha) ==
    IF ~is_alpha /\ level \notin Levels
    THEN [err |-> RangeError, map |-> stored]
    ELSE IF level \in LevelsIn(stored)
    THEN [err |-> "none", map |-> SubSeq(stored, 1, Len(stored) - 1)]
    ELSE [err |-> NotFound, map |-> stored]

\* FuzzySet.remove_alpha_cut(self, level) on the dict stored.  level is the
\* numerator of a level over LevelScale; is_alpha tells that an Alpha object
\* was passed, else a number is passed and Alpha(level) is built from it.
remove_alpha_cut(stored, level, is_alpha) ==
    IF ~is_alpha /\ level \notin Levels
    THEN [err |-> RangeError, map |-> stored]
    ELSE IF level \in LevelsIn(stored)
    THEN [err |-> "none", map |-> SelectSeq(stored, LAMBDA c : c.level # level)]
    ELSE [err |-> NotFound, map |-> stored]

\* ------------------------------------------------------------------ Tnorm
\* The t-norms whose values on the levels k / LevelScale are such levels
\* again.  zero is the level 0 and one the level LevelScale.

Tnorms == {"Min", "Max", "Drastic", "Nilpotent", "Lukasiewicz"}

\* tnorm(a, b)(): Tnorm.__init__ and the __call__ of the class named.
tnorm(name, a, b) ==
    LET zero == 0
        one  == LevelScale
    IN  CASE name = "Min" -> Ok(IF b < a THEN b ELSE a)
          [] name = "Max" -> Ok(IF b > a THEN b ELSE a)
          [] name = "Drastic" -> Ok(IF a = one THEN b ELSE IF b = one THEN a ELSE zero)
          [] name = "Nilpotent" -> Ok(IF a + b > one THEN (IF b < a THEN b ELSE a) ELSE zero)
          [] name = "Lukasiewicz" ->
                LET v2 == a + b - one
                IN  IF ~(0 <= v2 /\ v2 <= one)
                    THEN Raise("ValueError: Alpha-cut level must be between 0 and 1.")
                    ELSE Ok(IF v2 > zero THEN v2 ELSE zero)

\* ------------------------------------------------------------------ FuzzySet arithmetic

\* mid_alpha[level].extend(sabs): mid_alpha is the sequence of its items
\* (level, list) in the order the levels were first met.
extend_bucket(mid_alpha, level, sabs) ==
    IF \E k \in 1..Len(mid_alpha) : mid_alpha[k].level = level
    THEN [k \in 1..Len(mid_alpha) |->
             IF mid_alpha[k].level = level
             THEN [mid_alpha[k] EXCEPT !.sabs = @ \o sabs]
             ELSE mid_alpha[k]]
    ELSE Append(mid_alpha, [level |-> level, sabs |-> sabs])

RECURSIVE collect_pairs(_, _, _, _, _)
\* The double loop of add_with_tnorm from the p-th pair (sac, oac) on.
collect_pairs(self, other, name, p, mid_alpha) ==
    IF p > Len(self) * Len(other) THEN Ok(mid_alpha)
    ELSE LET sac == self[((p - 1) \div Len(other)) + 1]
             oac == other[((p - 1) % Len(other)) + 1]
             new_alpha == tnorm(name, sac.level, oac.level)
             new_left  == border_add(sac.left_borders, oac.left_borders)
             new_right == border_add(sac.right_borders, oac.right_borders)
         IN  IF new_alpha.err # "none" THEN Raise(new_alpha.err)
             ELSE IF new_left.err # "none" THEN Raise(new_left.err)
             ELSE IF new_right.err # "none" THEN Raise(new_right.err)
             ELSE collect_pairs(self, other, name, p + 1,
                     extend_bucket(
                         extend_bucket(mid_alpha, new_alpha.val,
                             get_sab_list([new_left.val EXCEPT !.side = "LEFT"]).val),
                         new_alpha.val,
                         get_sab_list([new_right.val EXCEPT !.side = "RIGHT"]).val))

RECURSIVE cuts_of_buckets(_, _, _)
\* alpha_list: AlphaCut.from_bordersides(k, v) for every item of mid_alpha.
cuts_of_buckets(mid_alpha, k, alpha_list) ==
    IF k > Len(mid_alpha) THEN Ok(alpha_list)
    ELSE LET c == from_bordersides(mid_alpha[k].level, mid_alpha[k].sabs)
         IN  IF c.err # "none" THEN Raise(c.err)
             ELSE cuts_of_buckets(mid_alpha, k + 1, Append(alpha_list, c.val))

\* FuzzySet.add_with_tnorm(self, other, tnorm) on the dicts of the two sets:
\* the dict of the FuzzySet returned, or the error raised.
add_with_tnorm(self, other, name) ==
    LET mid == collect_pairs(self, other, name, 1, <<>>)
    IN  IF mid.err # "none" THEN [err |-> mid.err, map |-> <<>>]
        ELSE LET alpha_list == cuts_of_buckets(mid.val, 1, <<>>)
             IN  IF alpha_list.err # "none" THEN [err |-> alpha_list.err, map |-> <<>>]
                 ELSE LET fs == FuzzySet(alpha_list.val)
                      IN  IF fs.err # "none" THEN [err |-> fs.err, map |-> <<>>] ELSE fs

RECURSIVE invert_cuts(_, _, _)
\* new_alpha_cuts.append(c) for the c that v.invert() returned, and the rest
\* of the loop.
append_inverted(self, k, new_alpha_cuts, c) ==
    IF c.err # "none" THEN Raise(c.err)
    ELSE invert_cuts(self, k + 1, Append(new_alpha_cuts, c.val))

\* new_alpha_cuts: v.invert() for every cut of the set.
invert_cuts(self, k, new_alpha_cuts) ==
    IF k > Len(self) THEN Ok(new_alpha_cuts)
    ELSE append_inverted(self, k, new_alpha_cuts, invert(self[k]))

\* A FuzzySet handed back by a method: its dict, or the error raised.
Returned(r) == IF r.err # "none" THEN [err |-> r.err, map |-> <<>>] ELSE r

\* return FuzzySet(alpha_cuts=new_alpha_cuts).
fuzzy_set_of(new_alpha_cuts) ==
    IF new_alpha_cuts.err # "none" THEN [err |-> new_alpha_cuts.err, map |-> <<>>]
    ELSE Returned(FuzzySet(new_alpha_cuts.val))

\* FuzzySet.invert(self).
invert_set(self) == fuzzy_set_of(invert_cuts(self, 1, <<>>))

\* self.add_with_tnorm(inverted, tnorm) for what other.invert() returned.
add_to_inverted(self, inverted, name) ==
    IF inverted.err # "none" THEN inverted
    ELSE add_with_tnorm(self, inverted.map, name)

\* FuzzySet.sub_with_tnorm(self, other, tnorm).
sub_with_tnorm(self, other, name) == add_to_inverted(self, invert_set(other), name)

\* ------------------------------------------------------------------ inputs

\* The AlphaCuts with float breakpoints in Coords that AlphaCut(level, left,
\* right) builds without error: they have at most CoordMax + 1 intervals.
CutShapes ==
    LET seqs == SeqsUpTo(Coords, CoordMax + 1) \ {<<>>}
    IN  {<<l, r>> \in seqs \X seqs :
            /\ Len(l) = Len(r)
            /\ are_left_right(Border(l, [i \in 1..Len(l) |-> "float"], FALSE, "LEFT").val,
                              Border(r, [i \in 1..Len(r) |-> "float"], FALSE, "RIGHT").val) = "none"}

MakeCut(level, shape) ==
    AlphaCut(level,
             Border(shape[1], [i \in 1..Len(shape[1]) |-> "float"], FALSE, "LEFT").val,
             Border(shape[2], [i \in 1..Len(shape[2]) |-> "float"], FALSE, "RIGHT").val).val

Cuts == {MakeCut(level, shape) : level \in Levels, shape \in CutShapes}

\* The levels handed to remove_alpha_cut: those of Levels, one below 0 and
\* one above 1.
RemoveLevels == (-1)..(LevelScale + 1)

\* The arguments of FuzzySet(...) and of add_alpha_cut(...).
BuildArgs == SeqsUpTo(Cuts, MaxBuild)
AddArgs ==
    {<<c>> : c \in Cuts}
        \cup SeqsUpTo({c \in Cuts : Len(c.left_borders.borders) <= MaxIterIntervals}, MaxAdd)

\* ------------------------------------------------------------------ state

VARIABLES
    built,        \* a FuzzySet object exists
    alpha_cuts,   \* its _alpha_cuts
    op,           \* the last call: "init", "add", "remove", ...
    outcome,      \* "none" when the last call returned, else the error it raised
    args,         \* the arguments of the calls of a specification that fixes them
    result,       \* what the last call of such a specification returned
    alpha         \* an Alpha object: its _value, _small_check and the type of
                  \* _value; <<>> while there is none

vars == <<built, alpha_cuts, op, outcome, args, result, alpha>>

NoObject ==
    /\ built = FALSE
    /\ alpha_cuts = <<>>
    /\ op = "none"
    /\ outcome = "none"
    /\ alpha = <<>>

\* ------------------------------------------------------------------
\* Spec: one FuzzySet object, constructed and then changed by any sequence
\* of add_alpha_cut and remove_alpha_cut calls.

Init ==
    /\ NoObject
    /\ args = <<>>
    /\ result = <<>>

\* FuzzySet(cuts): when __init__ raises, no object comes to exist.
Construct ==
    /\ ~built
    /\ \E cuts \in BuildArgs :
          LET r == FuzzySet(cuts)
          IN  /\ built' = (r.err = "none")
              /\ alpha_cuts' = IF r.err = "none" THEN r.map ELSE <<>>
              /\ op' = "init"
              /\ outcome' = r.err
    /\ UNCHANGED <<args, result, alpha>>

\* self.add_alpha_cut(cuts) with one AlphaCut or an iterable of them.
AddAlphaCut ==
    /\ built
    /\ \E cuts \in AddArgs :
          LET r == add_alpha_cut(alpha_cuts, cuts)
          IN  /\ alpha_cuts' = r.map
              /\ op' = "add"
              /\ outcome' = r.err
    /\ UNCHANGED <<built, args, result, alpha>>

\* self.remove_alpha_cut(level).
RemoveAlphaCut ==
    /\ built
    /\ \E level \in RemoveLevels : \E is_alpha \in BOOLEAN :
          LET r == remove_alpha_cut(alpha_cuts, level, is_alpha)
          IN  /\ alpha_cuts' = r.map
              /\ op' = "remove"
              /\ outcome' = r.err
    /\ UNCHANGED <<built, args, result, alpha>>

Next == Construct \/ AddAlphaCut \/ RemoveAlphaCut

Spec == Init /\ [][Next]_vars

\* ------------------------------------------------------------------
\* Points.  The breakpoints are integers, so two unions of closed intervals
\* hold the same real points iff they hold the same multiples of 1/2: a
\* point is given as twice its coordinate.

\* The point p / 2 lies in some interval of the cut.
HoldsHalf(cut, p) ==
    \E i \in 1..Len(cut.left_borders.borders) :
        2 * cut.left_borders.borders[i] <= p /\ p <= 2 * cut.right_borders.borders[i]

HalvesOf(cut) ==
    {p \in (2 * cut.left_borders.borders[1])
             ..(2 * cut.right_borders.borders[Len(cut.right_borders.borders)]) :
        HoldsHalf(cut, p)}

\* Every point of narrow is a point of wide.
PointSubset(narrow, wide) == HalvesOf(narrow) \subseteq HalvesOf(wide)

\* The stored cuts in descending order of level pass the nesting check.
NestingCheckHolds ==
    \A i, j \in 1..Len(alpha_cuts) :
        (/\ alpha_cuts[i].level > alpha_cuts[j].level
         /\ ~(\E k \in 1..Len(alpha_cuts) :
                 /\ alpha_cuts[k].level < alpha_cuts[i].level
                 /\ alpha_cuts[k].level > alpha_cuts[j].level))
            => contains(alpha_cuts[j], alpha_cuts[i])

\* ------------------------------------------------------------------ claims

\* C1: whenever add_alpha_cut or remove_alpha_cut raises, the level-to-cut
\* map, its order included, is what it was before the call.
C1_FailedCallLeavesMap ==
    [][(op' \in {"add", "remove"} /\ outcome' # "none") => alpha_cuts' = alpha_cuts]_vars

\* C2: after every add_alpha_cut or remove_alpha_cut call that returns
\* normally, every two level-adjacent cuts satisfy higher_cut in lower_cut.
C2_NestingAfterReturn ==
    (built /\ op \in {"add", "remove"} /\ outcome = "none") => NestingCheckHolds

\* C3: once construction or add_alpha_cut has succeeded, the cut at a higher
\* level is a subset, as a set of points, of the cut at every lower level.
C3_HigherCutIsSubset ==
    (built /\ op \in {"init", "add"} /\ outcome = "none")
        => \A i, j \in 1..Len(alpha_cuts) :
              alpha_cuts[i].level > alpha_cuts[j].level
                  => PointSubset(alpha_cuts[i], alpha_cuts[j])

\* C4: in every state of a FuzzySet, whether the last call returned or raised,
\* the stored levels are pairwise distinct and alpha_cuts lists the cuts in
\* strictly descending order of level.
C4_DistinctDescending ==
    built => \A i \in 1..(Len(alpha_cuts) - 1) :
                alpha_cuts[i].level > alpha_cuts[i + 1].level

\* ------------------------------------------------------------------
\* SpecBuild: FuzzySet(args.stored) and then add_alpha_cut(args.new) on the
\* object built, for every choice of the two arguments.

InitBuild ==
    /\ NoObject
    /\ \E cs \in BuildArgs :
          \E k \in 0..Len(cs) :
             args = [stored |-> SubSeq(cs, 1, k), new |-> SubSeq(cs, k + 1, Len(cs))]
    /\ result = <<>>

BuildConstruct ==
    /\ op = "none"
    /\ LET r == FuzzySet(args.stored)
       IN  /\ built' = (r.err = "none")
           /\ alpha_cuts' = IF r.err = "none" THEN r.map ELSE <<>>
           /\ op' = "init"
           /\ outcome' = r.err
    /\ UNCHANGED <<args, result, alpha>>

BuildAdd ==
    /\ built
    /\ op = "init"
    /\ LET r == add_alpha_cut(alpha_cuts, args.new)
       IN  /\ alpha_cuts' = r.map
           /\ op' = "add"
           /\ outcome' = r.err
    /\ UNCHANGED <<built, args, result, alpha>>

NextBuild == BuildConstruct \/ BuildAdd

SpecBuild == InitBuild /\ [][NextBuild]_vars

\* The cuts involved in the last call: those handed to the constructor and,
\* for add_alpha_cut, those handed to it as well.
Involved == IF op = "add" THEN args.stored \o args.new ELSE args.stored

\* The outcome the rule of C5 gives for the cuts cs.
RuleOutcome(cs) ==
    IF \E i, j \in 1..Len(cs) : i # j /\ cs[i].level = cs[j].level
    THEN DuplicateLevel
    ELSE IF \E i, j \in 1..Len(cs) :
               /\ cs[i].level > cs[j].level
               /\ ~(\E k \in 1..Len(cs) : cs[k].level < cs[i].level /\ cs[k].level > cs[j].level)
               /\ ~contains(cs[j], cs[i])
    THEN Obstructed
    ELSE "none"

\* C5: construction and add_alpha_cut raise the duplicate-level error iff two
\* of the cuts involved share a level, otherwise the obstructed error iff some
\* level-adjacent pair (higher, lower) has higher in lower false, and succeed
\* otherwise; cuts that are not level-adjacent are not compared.
C5_OutcomeRule ==
    op \in {"init", "add"} => outcome = RuleOutcome(Involved)

\* add_alpha_cut has returned on three cuts whose highest is not contained in
\* the lowest: a pair that is not level-adjacent and was not compared.
C5_Witness ==
    /\ op = "add"
    /\ outcome = "none"
    /\ Len(args.new) > 0
    /\ Len(alpha_cuts) = 3
    /\ ~contains(alpha_cuts[3], alpha_cuts[1])

\* ------------------------------------------------------------------
\* SpecUncover: Border.uncover(args.left, args.right) for every two Borders,
\* whatever side and element type each has.

BorderSides == {"LEFT", "RIGHT", "INSIDE", "NONE"}
DTypes == {"int", "float"}

UBorders ==
    {Border(b, [i \in 1..Len(b) |-> t], FALSE, side).val :
        b \in SeqsUpTo(0..UCoordMax, UMaxLen) \ {<<>>}, side \in BorderSides, t \in DTypes}

InitUncover ==
    /\ NoObject
    /\ \E l \in UBorders : \E r \in UBorders : args = [left |-> l, right |-> r]
    /\ result = <<>>

Uncover ==
    /\ op = "none"
    /\ op' = "uncover"
    /\ result' = uncover(args.left, args.right)
    /\ outcome' = result'.err
    /\ UNCHANGED <<built, alpha_cuts, args, alpha>>

NextUncover == Uncover

SpecUncover == InitUncover /\ [][NextUncover]_vars

\* uncover was called with a first argument tagged Left and a second tagged Right.
TaggedLeftRight == args.left.side = "LEFT" /\ args.right.side = "RIGHT"

\* The two returned Borders have equal length, are strictly increasing and not
\* covered, and new_left[i] <= new_right[i] < new_left[i+1].
ResultOrdered ==
    LET nl == result.val[1]
        nr == result.val[2]
    IN  /\ Len(nl.borders) = Len(nr.borders)
        /\ \A i \in 1..(Len(nl.borders) - 1) : nl.borders[i] < nl.borders[i + 1]
        /\ \A i \in 1..(Len(nr.borders) - 1) : nr.borders[i] < nr.borders[i + 1]
        /\ ~nl.covered /\ ~nr.covered
        /\ \A i \in 1..Len(nl.borders) : nl.borders[i] <= nr.borders[i]
        /\ \A i \in 1..(Len(nl.borders) - 1) : nr.borders[i] < nl.borders[i + 1]

\* The two returned Borders pass are_left_right and build an AlphaCut.
ResultBuildsCut ==
    /\ are_left_right(result.val[1], result.val[2]) = "none"
    /\ \A level \in Levels : AlphaCut(level, result.val[1], result.val[2]).err = "none"

\* C6 as stated: for Borders tagged Left and Right of equal length on which
\* uncover returns, the returned Borders are ordered as above, so that they
\* pass are_left_right and can build an AlphaCut.
C6_UncoverResultValid ==
    (op = "uncover" /\ TaggedLeftRight /\ result.err = "none")
        => (ResultOrdered /\ ResultBuildsCut)

\* C6 as amended: the returned Borders are ordered as above for every such
\* pair, and pass are_left_right and build an AlphaCut when the two Borders
\* handed in have the same numeric representation.
C6_UncoverResultValidSameType ==
    (op = "uncover" /\ TaggedLeftRight /\ result.err = "none")
        => /\ ResultOrdered
           /\ (args.left.dtrial = args.right.dtrial => ResultBuildsCut)

\* uncover has returned two intervals for two Borders of one representation
\* whose breakpoints were not in increasing order.
C6_Witness ==
    /\ op = "uncover" /\ TaggedLeftRight /\ result.err = "none"
    /\ args.left.dtrial = args.right.dtrial
    /\ args.left.covered
    /\ Len(result.val[1].borders) = 2

\* Walking the breakpoints in ascending order, Left before Right at equal
\* coordinates, some prefix holds more points of right than of left:
\* the prefix that ends with the last point of right at some coordinate x.
PrefixMoreRight(left, right) ==
    \E k \in 1..Len(right.borders) :
        Cardinality({i \in 1..Len(right.borders) : right.borders[i] <= right.borders[k]})
            > Cardinality({i \in 1..Len(left.borders) : left.borders[i] <= right.borders[k]})

FloatBorder(b, side) == Border(b, [i \in 1..Len(b) |-> "float"], FALSE, side).val

\* The two examples of C7, with the coordinates doubled: uncover(left=[1.0],
\* right=[-1.0]) raises, uncover(left=[2.0, 1.0], right=[1.5, 2.5]) returns
\* left=(1.0, 2.0), right=(1.5, 2.5).
C7_Examples ==
    /\ uncover(FloatBorder(<<2>>, "LEFT"), FloatBorder(<<-2>>, "RIGHT")).err = EndsBeforeStart
    /\ LET u == uncover(FloatBorder(<<4, 2>>, "LEFT"), FloatBorder(<<3, 5>>, "RIGHT"))
       IN  /\ u.err = "none"
           /\ u.val[1].borders = <<2, 4>>
           /\ u.val[2].borders = <<3, 5>>

\* C7 as stated, for a first argument tagged Left and a second tagged Right:
\* uncover raises the 'ends before start' error iff some prefix of the walk
\* holds more Right points than Left points, the length error iff the lengths
\* differ, and returns in every other case.
C7_UncoverErrors ==
    (op = "uncover" /\ TaggedLeftRight)
        => /\ (result.err = EndsBeforeStart) = PrefixMoreRight(args.left, args.right)
           /\ (result.err = LengthError) = (Len(args.left.borders) # Len(args.right.borders))
           /\ (result.err = "none")
                 = (/\ ~PrefixMoreRight(args.left, args.right)
                    /\ Len(args.left.borders) = Len(args.right.borders))
           /\ C7_Examples

\* C7 as amended: for a first argument tagged Left and a second tagged Right,
\* uncover raises the length error iff the lengths differ; when they are
\* equal it raises the 'ends before start' error iff some prefix of the walk
\* holds more Right points than Left points; in every other case it returns.
C7_UncoverErrorsTagged ==
    (op = "uncover" /\ TaggedLeftRight)
        => /\ (result.err = LengthError) = (Len(args.left.borders) # Len(args.right.borders))
           /\ (result.err = EndsBeforeStart)
                 = (/\ Len(args.left.borders) = Len(args.right.borders)
                    /\ PrefixMoreRight(args.left, args.right))
           /\ (result.err = "none")
                 = (/\ Len(args.left.borders) = Len(args.right.borders)
                    /\ ~PrefixMoreRight(args.left, args.right))
           /\ C7_Examples

\* uncover has raised 'ends before start' on two Borders of two breakpoints
\* each, tagged Left and Right.
C7_Witness ==
    /\ op = "uncover" /\ TaggedLeftRight
    /\ Len(args.left.borders) = 2 /\ Len(args.right.borders) = 2
    /\ result.err = EndsBeforeStart

\* The point p / 2 lies in some input interval [left[i], right[i]].
InInput(left, right, p) ==
    \E i \in 1..Len(left.borders) :
        2 * left.borders[i] <= p /\ p <= 2 * right.borders[i]

\* The point p / 2 lies in some returned interval [new_left[k], new_right[k]].
InReturned(new_left, new_right, p) ==
    \E k \in 1..Len(new_left.borders) :
        /\ k <= Len(new_right.borders)
        /\ 2 * new_left.borders[k] <= p /\ p <= 2 * new_right.borders[k]

\* left and right are tagged Left and Right, have equal length, and
\* left[i] <= right[i] for every i.
PairwiseIntervals ==
    /\ TaggedLeftRight
    /\ Len(args.left.borders) = Len(args.right.borders)
    /\ \A i \in 1..Len(args.left.borders) : args.left.borders[i] <= args.right.borders[i]

\* C24: for Borders tagged Left and Right of equal length with
\* left[i] <= right[i] for every i, in any order, uncover returns, and a
\* point lies in some returned interval iff it lies in some input interval;
\* the returned intervals are pairwise apart (overlapping and touching ones
\* are merged).
C24_UncoverIsUnion ==
    (op = "uncover" /\ PairwiseIntervals)
        => /\ result.err = "none"
           /\ Len(result.val[1].borders) = Len(result.val[2].borders)
           /\ \A p \in 0..(2 * UCoordMax) :
                 InReturned(result.val[1], result.val[2], p)
                    = InInput(args.left, args.right, p)
           /\ \A k \in 1..(Len(result.val[1].borders) - 1) :
                 result.val[2].borders[k] < result.val[1].borders[k + 1]

\* uncover has merged two overlapping intervals that were handed in with the
\* later one first.
C24_Witness ==
    /\ op = "uncover" /\ PairwiseIntervals
    /\ Len(args.left.borders) = 2
    /\ args.left.borders[1] > args.left.borders[2]
    /\ args.right.borders[2] > args.left.borders[1]
    /\ result.err = "none"
    /\ Len(result.val[1].borders) = 1

\* uncover with the first argument read as Left points and the second as
\* Right points, whatever side the two Borders have.
uncover_retagged(left, right) ==
    uncover([left EXCEPT !.side = "LEFT"], [right EXCEPT !.side = "RIGHT"])

\* C26: uncover(left, right) treats every breakpoint of left as a Left point
\* and every breakpoint of right as a Right point, whatever side (Left, Right,
\* Inside or none) the two Borders have when they are passed in.
C26_SidesOfArgumentsIgnored ==
    op = "uncover" => result = uncover_retagged(args.left, args.right)

\* ------------------------------------------------------------------
\* SpecArith: A.add_with_tnorm(B, T) and A.sub_with_tnorm(B, T) for every two
\* FuzzySets A = args.self and B = args.other that FuzzySet(...) builds.

ArithCuts ==
    {c \in Cuts :
        c.right_borders.borders[Len(c.right_borders.borders)] <= ACoordMax}

\* The dicts of the FuzzySets built from at most AMaxCuts cuts.
ArithSets ==
    {FuzzySet(cs).map : cs \in {x \in SeqsUpTo(ArithCuts, AMaxCuts) : FuzzySet(x).err = "none"}}

InitArith ==
    /\ NoObject
    /\ \E a \in ArithSets : \E b \in ArithSets : \E t \in Tnorms :
          args = [self |-> a, other |-> b, tnorm |-> t]
    /\ result = <<>>

AddWithTnorm ==
    /\ op = "none"
    /\ op' = "add_with_tnorm"
    /\ result' = add_with_tnorm(args.self, args.other, args.tnorm)
    /\ outcome' = result'.err
    /\ UNCHANGED <<built, alpha_cuts, args, alpha>>

SubWithTnorm ==
    /\ op = "none"
    /\ op' = "sub_with_tnorm"
    /\ result' = sub_with_tnorm(args.self, args.other, args.tnorm)
    /\ outcome' = result'.err
    /\ UNCHANGED <<built, alpha_cuts, args, alpha>>

NextArith == AddWithTnorm \/ SubWithTnorm

SpecArith == InitArith /\ [][NextArith]_vars

\* The levels T(a, b) for a a level of A and b a level of B.
TnormLevels(A, B, T) ==
    {tnorm(T, A[i].level, B[j].level).val : i \in 1..Len(A), j \in 1..Len(B)}

\* The pairs (i, j) of cuts of A and B with T(a, b) = L.
PairsAt(A, B, T, L) ==
    {x \in (1..Len(A)) \X (1..Len(B)) : tnorm(T, A[x[1]].level, B[x[2]].level).val = L}

\* {x + y : x in ca, y in cb} and {x - y : x in ca, y in cb}, as points.
MinkowskiSum(ca, cb) == {p + q : p \in HalvesOf(ca), q \in HalvesOf(cb)}
MinkowskiDifference(ca, cb) == {p - q : p \in HalvesOf(ca), q \in HalvesOf(cb)}

\* A set of one cut, and that cut of one interval.
SingleConvex(A) == Len(A) = 1 /\ Len(A[1].left_borders.borders) = 1

\* The dict that holds the one cut [l, r] at the level given.
SingleCut(map, level, l, r) ==
    /\ Len(map) = 1
    /\ map[1].level = level
    /\ map[1].left_borders.borders = <<l>>
    /\ map[1].right_borders.borders = <<r>>

UnitSet == FuzzySet(<<MakeCut(LevelScale, <<(<<0>>), (<<1>>)>>)>>).map

\* C8: whenever A.add_with_tnorm(B, T) returns, the levels of the result are
\* exactly the T(a, b) for a a level of A and b a level of B, and the cut at
\* each level L holds exactly the points of the Minkowski sums of the cuts of
\* the pairs with T(a, b) = L; single-level convex operands [p, q] and [r, s]
\* give the single cut [p + r, q + s], and [0, 1] + [0, 1] at level 1 under
\* Min is [0, 2] at level 1.
C8_AddIsMinkowskiSum ==
    (op = "add_with_tnorm" /\ result.err = "none")
        => LET A == args.self
               B == args.other
               T == args.tnorm
           IN  /\ LevelsIn(result.map) = TnormLevels(A, B, T)
               /\ Cardinality(LevelsIn(result.map)) = Len(result.map)
               /\ \A k \in 1..Len(result.map) :
                     HalvesOf(result.map[k])
                         = UNION {MinkowskiSum(A[x[1]], B[x[2]]) :
                                     x \in PairsAt(A, B, T, result.map[k].level)}
               /\ (SingleConvex(A) /\ SingleConvex(B))
                     => SingleCut(result.map, tnorm(T, A[1].level, B[1].level).val,
                            A[1].left_borders.borders[1] + B[1].left_borders.borders[1],
                            A[1].right_borders.borders[1] + B[1].right_borders.borders[1])
               /\ SingleCut(add_with_tnorm(UnitSet, UnitSet, "Min").map, LevelScale, 0, 2)

\* add_with_tnorm has returned for operands of two cuts each, two pairs of
\* cuts fell on one level, and a cut of the result has two intervals.
C8_Witness ==
    /\ op = "add_with_tnorm" /\ result.err = "none"
    /\ Len(args.self) = 2 /\ Len(args.other) = 2
    /\ Len(result.map) < 4
    /\ \E k \in 1..Len(result.map) : Len(result.map[k].left_borders.borders) = 2

OfType(c, t) ==
    [c EXCEPT !.left_borders.dtrial = t, !.right_borders.dtrial = t]

InvertCuts == {OfType(c, t) : c \in Cuts, t \in DTypes}

InitInvert ==
    /\ NoObject
    /\ \E c \in InvertCuts : args = [cut |-> c]
    /\ result = <<>>

Invert ==
    /\ op = "none"
    /\ op' = "invert"
    /\ result' = invert(args.cut)
    /\ outcome' = result'.err
    /\ UNCHANGED <<built, alpha_cuts, args, alpha>>

InvertAgain ==
    /\ op = "invert"
    /\ outcome = "none"
    /\ op' = "invert_invert"
    /\ result' = invert(result.val)
    /\ outcome' = result'.err
    /\ UNCHANGED <<built, alpha_cuts, args, alpha>>

NextInvert == Invert \/ InvertAgain

SpecInvert == InitInvert /\ [][NextInvert]_vars

\* No two consecutive intervals of the cut touch.
NoTouch(c) ==
    \A i \in 1..(Len(c.left_borders.borders) - 1) :
        c.right_borders.borders[i] < c.left_borders.borders[i + 1]

\* C10: for every valid AlphaCut c neither c.invert() nor c.invert().invert()
\* raises; the second has the level of c and holds exactly the points of c,
\* and it is == c whenever no two consecutive intervals of c touch.
C10_DoubleInvert ==
    /\ op = "invert" => result.err = "none"
    /\ op = "invert_invert"
          => /\ result.err = "none"
             /\ result.val.level = args.cut.level
             /\ HalvesOf(result.val) = HalvesOf(args.cut)
             /\ NoTouch(args.cut) => cut_eq(result.val, args.cut)

\* c.invert().invert() has returned for a cut c of two intervals that touch,
\* and it is the cut of the one interval they make: not == c.
C10_Witness ==
    /\ op = "invert_invert" /\ result.err = "none"
    /\ Len(args.cut.left_borders.borders) = 2
    /\ Len(result.val.left_borders.borders) = 1
    /\ args.cut.right_borders.borders[1] = args.cut.left_borders.borders[2]
    /\ ~cut_eq(result.val, args.cut)

\* C25: for every valid AlphaCut c, of integer breakpoints or not, c.invert()
\* returns without error an AlphaCut with the level of c such that
\* x in c.invert() iff -x in c, for every point x.
C25_InvertReflects ==
    op = "invert"
        => /\ result.err = "none"
           /\ result.val.level = args.cut.level
           /\ \A p \in (-2 * CoordMax)..(2 * CoordMax) :
                 HoldsHalf(result.val, p) = HoldsHalf(args.cut, -p)

\* A cut of two intervals with integer breakpoints, apart from each other
\* and not symmetric about 0, has been inverted.
C25_Witness ==
    /\ op = "invert" /\ result.err = "none"
    /\ args.cut.left_borders.dtrial = "int"
    /\ Len(args.cut.left_borders.borders) = 2
    /\ NoTouch(args.cut)
    /\ Len(result.val.left_borders.borders) = 2
    /\ result.val.left_borders.borders[1] = -args.cut.right_borders.borders[2]
    /\ result.val.left_borders.borders[1] < 0

\* ------------------------------------------------------------------
\* SpecCut: AlphaCut(level, left, right) for every level in [0, 1] and every
\* two Borders left = Border(b, covered, side) and right alike, of int or
\* float breakpoints.

CutSides == {"NONE", "LEFT", "RIGHT"}

InitCut ==
    /\ NoObject
    /\ \E level \in Levels :
       \E lb \in SeqsUpTo(0..UCoordMax, UMaxLen) \ {<<>>} :
       \E rb \in SeqsUpTo(0..UCoordMax, UMaxLen) \ {<<>>} :
       \E lt \in DTypes : \E rt \in DTypes :
       \E lc \in BOOLEAN : \E rc \in BOOLEAN :
       \E ls \in CutSides : \E rs \in CutSides :
          args = [level |-> level,
                  left  |-> Border(lb, [i \in 1..Len(lb) |-> lt], lc, ls).val,
                  right |-> Border(rb, [i \in 1..Len(rb) |-> rt], rc, rs).val,
                  left_covered  |-> lc,
                  right_covered |-> rc]
    /\ result = <<>>

NewAlphaCut ==
    /\ op = "none"
    /\ op' = "alpha_cut"
    /\ result' = AlphaCut(args.level, args.left, args.right)
    /\ outcome' = result'.err
    /\ UNCHANGED <<built, alpha_cuts, args, alpha>>

NextCut == NewAlphaCut

SpecCut == InitCut /\ [][NextCut]_vars

StrictlyIncreasing(s) == \A i \in 1..(Len(s) - 1) : s[i] < s[i + 1]

\* The conditions of C11 on the breakpoints l and r of two Borders of the
\* types lt and rt that were built with the covered arguments lc and rc.
CutConditions(l, r, lt, rt, lc, rc) ==
    /\ lt = rt
    /\ Len(l) = Len(r)
    /\ \A i \in 1..Len(l) : l[i] <= r[i]
    /\ \A i \in 1..(Len(l) - 1) : r[i] <= l[i + 1]
    /\ StrictlyIncreasing(l) /\ ~lc
    /\ StrictlyIncreasing(r) /\ ~rc

\* C11: AlphaCut(level, left, right) is constructed without error iff left
\* and right have the same representation and length, left[i] <= right[i]
\* and right[i] <= left[i+1] for all i, and neither Border is covered (each
\* is strictly increasing and was not built with covered = true); the
\* AlphaCut that then exists holds these two Borders.
C11_CutBuiltIffValid ==
    op = "alpha_cut"
        => /\ (result.err = "none")
                 = CutConditions(args.left.borders, args.right.borders,
                                 args.left.dtrial, args.right.dtrial,
                                 args.left_covered, args.right_covered)
           /\ result.err = "none"
                 => /\ result.val.left_borders.borders = args.left.borders
                    /\ result.val.right_borders.borders = args.right.borders
                    /\ ~result.val.left_borders.covered
                    /\ ~result.val.right_borders.covered

\* An AlphaCut of two intervals that touch has been constructed.
C11_Witness ==
    /\ op = "alpha_cut" /\ result.err = "none"
    /\ Len(result.val.left_borders.borders) = 2
    /\ result.val.right_borders.borders[1] = result.val.left_borders.borders[2]

\* ------------------------------------------------------------------
\* SpecBorderArith: x + y and x - y for every two Borders x = args.left and
\* y = args.right.

InitBorderArith ==
    /\ NoObject
    /\ \E x \in UBorders : \E y \in UBorders : args = [left |-> x, right |-> y]
    /\ result = <<>>

BorderAdd ==
    /\ op = "none"
    /\ op' = "border_add"
    /\ result' = border_add(args.left, args.right)
    /\ outcome' = result'.err
    /\ UNCHANGED <<built, alpha_cuts, args, alpha>>

BorderSub ==
    /\ op = "none"
    /\ op' = "border_sub"
    /\ result' = border_sub(args.left, args.right)
    /\ outcome' = result'.err
    /\ UNCHANGED <<built, alpha_cuts, args, alpha>>

NextBorderArith == BorderAdd \/ BorderSub

SpecBorderArith == InitBorderArith /\ [][NextBorderArith]_vars

\* C12: for Borders x of length m and y of length n of one representation,
\* x + y (x - y) is a Border of length m * n whose element at position
\* i * n + j is x[i] + y[j] (x[i] - y[j]), and its covered flag is true for
\* every input, m = n = 1 included.
C12_PairwiseRowMajor ==
    (op \in {"border_add", "border_sub"} /\ args.left.dtrial = args.right.dtrial)
        => LET x == args.left.borders
               y == args.right.borders
               n == Len(y)
           IN  /\ result.err = "none"
               /\ Len(result.val.borders) = Len(x) * n
               /\ \A i \in 0..(Len(x) - 1) : \A j \in 0..(n - 1) :
                     result.val.borders[i * n + j + 1]
                         = IF op = "border_add" THEN x[i + 1] + y[j + 1]
                                                ELSE x[i + 1] - y[j + 1]
               /\ result.val.covered

\* The sum of two Borders of one breakpoint each has been computed.
C12_Witness ==
    /\ op = "border_add" /\ result.err = "none"
    /\ Len(args.left.borders) = 1 /\ Len(args.right.borders) = 1
    /\ result.val.covered

\* ------------------------------------------------------------------
\* SpecTnorm: one call cls(a, b, parameter)() for Alphas a = args.a and
\* b = args.b with values k / TScale in [0, 1].

TAlphas ==
    { [value |-> Rat(k, TScale), small_check |-> FALSE, dtype |-> t] :
        k \in 0..TScale, t \in AlphaTypes }

Parameters ==
    {NoParameter, NegInf, PosInf} \cup { Finite(p) : p \in (-TParamMax)..TParamMax }

\* The powers that Sklar takes for a finite parameter are ones py_pow gives.
SklarModelled(cls, a, b, parameter) ==
    (cls = "Sklar" /\ a.dtype = b.dtype /\ parameter.kind = "finite"
                   /\ parameter.p # 0)
        => /\ PowModelled(a.value, Rat(parameter.p, 1), a.dtype)
           /\ PowModelled(b.value, Rat(parameter.p, 1), a.dtype)
           /\ sklar_base(a, b, par_alpha(a, parameter).val).err = "none"
                 => PowModelled(sklar_base(a, b, par_alpha(a, parameter).val).val.value,
                                Rat(1, parameter.p), a.dtype)

InitTnorm ==
    /\ NoObject
    /\ \E cls \in TnormClasses : \E a \in TAlphas : \E b \in TAlphas :
       \E parameter \in Parameters :
          /\ SklarModelled(cls, a, b, parameter)
          /\ args = [cls |-> cls, a |-> a, b |-> b, parameter |-> parameter]
    /\ result = <<>>

CallTnorm ==
    /\ op = "none"
    /\ op' = "tnorm"
    /\ result' = call_tnorm(args.cls, args.a, args.b, args.parameter)
    /\ outcome' = result'.err
    /\ UNCHANGED <<built, alpha_cuts, args, alpha>>

NextTnorm == CallTnorm

SpecTnorm == InitTnorm /\ [][NextTnorm]_vars

\* The call args.cls(args.a, args.b, ...)() has been made on two Alphas of
\* one representation.
Called(cls) ==
    /\ op = "tnorm"
    /\ args.cls = cls
    /\ args.a.dtype = args.b.dtype

\* max(0, a + b - 1) as a rational number.
BoundedSum(a, b) ==
    IF a.num * b.den + b.num * a.den < a.den * b.den
    THEN Rat(0, 1)
    ELSE Rat(a.num * b.den + b.num * a.den - a.den * b.den, a.den * b.den)

\* C13: for Alphas a and b in [0, 1] of one representation,
\* Lukasiewicz(a, b)() returns without raising an Alpha whose value is
\* max(0, a + b - 1), which is 0 whenever a + b < 1.
C13_LukasiewiczBoundedSum ==
    Called("Lukasiewicz")
        => /\ result.err = "none"
           /\ result.val.value = BoundedSum(args.a.value, args.b.value)

\* C14: for Alphas a and b in [0, 1] of one representation, in each of the
\* three representations, Sklar(a, b, -inf)() returns what Min(a, b)()
\* returns, Sklar(a, b, 0)() what Product(a, b)() returns and
\* Sklar(a, b, +inf)() what Drastic(a, b)() returns, each without raising.
C14_SklarLimits ==
    Called("Sklar")
        => /\ args.parameter = NegInf
                => result.err = "none" /\ result = Min(args.a, args.b)
           /\ args.parameter = Finite(0)
                => result.err = "none" /\ result = Product(args.a, args.b)
           /\ args.parameter = PosInf
                => result.err = "none" /\ result = Drastic(args.a, args.b)

\* C15: for Alphas a and b in [0, 1] of one representation, Hamacher(a, b)()
\* raises no division by zero: it returns 0 when a = b = 0; for every other
\* pair a + b - a * b is not zero, the value v returned satisfies
\* v * (a + b - a * b) = a * b, and 0 <= v <= 1.
C15_HamacherGuarded ==
    Called("Hamacher")
        => LET a == args.a.value
               b == args.b.value
               den == RatSub(RatAdd(a, b), RatMul(a, b))
           IN  /\ result.err = "none"
               /\ (a.num = 0 /\ b.num = 0) => result.val.value.num = 0
               /\ ~(a.num = 0 /\ b.num = 0)
                     => /\ den.num # 0
                        /\ RatMul(result.val.value, den) = RatMul(a, b)
               /\ 0 <= result.val.value.num
               /\ result.val.value.num <= result.val.value.den

\* Hamacher has been called on two zeros and has returned zero.
C15_Witness ==
    /\ Called("Hamacher") /\ result.err = "none"
    /\ args.a.value.num = 0 /\ args.b.value.num = 0
    /\ result.val.value.num = 0

\* ------------------------------------------------------------------
\* SpecAlpha: the life of one Alpha object: its construction, assignments
\* to small_check, and the binary operators with it as the left operand.

\* The values k / AScale from -AValMax / AScale to AValMax / AScale.
AValues == { Rat(k, AScale) : k \in (-AValMax)..AValMax }

\* The types of the values handed to Alpha(): the three of AlphaType and int.
ValueTypes == AlphaTypes \cup {"int"}

InUnit(v) == 0 <= v.num /\ v.num <= v.den

\* The Alpha objects that can exist when a call starts.
AlphaObjects ==
    { [value |-> v, small_check |-> s, dtype |-> t] :
        v \in AValues, s \in BOOLEAN, t \in AlphaTypes }

OtherAlphas == { o \in AlphaObjects : ~o.small_check => InUnit(o.value) }

InitAlpha ==
    /\ NoObject
    /\ args = <<>>
    /\ result = <<>>

\* alpha = Alpha(value, small_check); no object exists when it raises.
NewAlpha ==
    /\ alpha = <<>>
    /\ \E v \in AValues : \E t \in ValueTypes : \E s \in BOOLEAN :
          /\ args' = [value |-> v, dtype |-> t, small_check |-> s]
          /\ outcome' = Alpha(v, t, s).err
          /\ alpha' = IF Alpha(v, t, s).err = "none" THEN Alpha(v, t, s).val ELSE <<>>
    /\ op' = "alpha"
    /\ UNCHANGED <<built, alpha_cuts, result>>

\* alpha.small_check = small_check.
SetSmallCheck ==
    /\ alpha # <<>>
    /\ \E s \in BOOLEAN :
          /\ args' = [small_check |-> s, before |-> alpha]
          /\ alpha' = set_small_check(alpha, s).val
          /\ outcome' = set_small_check(alpha, s).err
    /\ op' = "small_check"
    /\ UNCHANGED <<built, alpha_cuts, result>>

\* alpha + other, alpha - other, alpha * other, alpha / other, alpha ** other.
BinaryOperator ==
    /\ alpha # <<>>
    /\ \E name \in BinaryOperators : \E other \in OtherAlphas :
          /\ (name = "pow" /\ alpha.dtype = other.dtype)
                => PowModelled(alpha.value, other.value, alpha.dtype)
          /\ args' = [name |-> name, other |-> other]
          /\ result' = alpha_binary(name, alpha, other)
          /\ outcome' = result'.err
    /\ op' = "binary"
    /\ UNCHANGED <<built, alpha_cuts, alpha>>

NextAlpha == NewAlpha \/ SetSmallCheck \/ BinaryOperator

SpecAlpha == InitAlpha /\ [][NextAlpha]_vars

\* C16: for every two Alphas whose representations differ, whatever their
\* values, each of a + b, a - b, a * b, a / b and a ** b raises the type
\* error and returns nothing.
C16_MixedTypesRaiseTypeError ==
    (op = "binary" /\ alpha.dtype # args.other.dtype)
        => result = Raise(AlphaTypeError)

\* C17: an Alpha that exists has small_check set or a value in [0, 1];
\* Alpha(v) with v outside [0, 1] raises the range error, Alpha(v, True)
\* accepts every v, and small_check = False on a value outside [0, 1]
\* raises and leaves an object of which the same holds.
C17_RelaxedOrInUnit ==
    /\ alpha # <<>> => (alpha.small_check \/ InUnit(alpha.value))
    /\ (op = "alpha" /\ args.dtype \in AlphaTypes)
          => /\ (~args.small_check /\ ~InUnit(args.value)) => outcome = RangeError
             /\ args.small_check => outcome = "none" /\ alpha.value = args.value
    /\ (op = "small_check" /\ ~args.small_check /\ ~InUnit(args.before.value))
          => outcome = RangeError

\* ------------------------------------------------------------------
\* FuzzySet.from_points(alpha_levels, points).  points is a sequence of
\* samples [coord, value]: an int coordinate and a membership value / LevelScale.

DomainObstructed == "ValueError: Fuzzy set domain obstructed."

\* AlphaCut(level, left_borders, right_borders) for two lists of ints.
cut_of_lists(level, left_borders, right_borders) ==
    IF level \notin Levels
    THEN Raise("ValueError: Alpha-cut level must be between 0 and 1.")
    ELSE IF Border(left_borders, [k \in 1..Len(left_borders) |-> "int"], FALSE, "LEFT").err # "none"
    THEN Raise(Border(left_borders, [k \in 1..Len(left_borders) |-> "int"], FALSE, "LEFT").err)
    ELSE IF Border(right_borders, [k \in 1..Len(right_borders) |-> "int"], FALSE, "RIGHT").err # "none"
    THEN Raise(Border(right_borders, [k \in 1..Len(right_borders) |-> "int"], FALSE, "RIGHT").err)
    ELSE AlphaCut(level,
                  Border(left_borders, [k \in 1..Len(left_borders) |-> "int"], FALSE, "LEFT").val,
                  Border(right_borders, [k \in 1..Len(right_borders) |-> "int"], FALSE, "RIGHT").val)

RECURSIVE sweep_points(_, _, _, _, _, _, _)
\* The loop over the points for one level, from the i-th point on: the two
\* lists it leaves behind, or the error it raised.  last_coord is the
\* coordinate of the point before the i-th.
sweep_points(points, level, check_run, i, left_borders, right_borders, in_cut) ==
    IF i > Len(points)
    THEN Ok([left_borders |-> left_borders, right_borders |-> right_borders])
    ELSE IF check_run /\ i > 1 /\ ~(points[i - 1].coord < points[i].coord)
    THEN Raise(DomainObstructed)
    ELSE IF points[i].value >= level /\ ~in_cut
    THEN sweep_points(points, level, check_run, i + 1,
                      Append(left_borders, points[i].coord), right_borders, TRUE)
    ELSE IF points[i].value < level /\ in_cut
    THEN sweep_points(points, level, check_run, i + 1,
                      left_borders, Append(right_borders, points[i - 1].coord), FALSE)
    ELSE sweep_points(points, level, check_run, i + 1,
                      left_borders, right_borders, in_cut)

\* A loop end that leaves the last run open.
close_run_never(left_borders, right_borders, last_coord) == right_borders

\* if len(left_borders) == len(right_borders) + 1:
\*     right_borders.append(last_coord)
close_run(left_borders, right_borders, last_coord) ==
    IF Len(left_borders) = Len(right_borders) + 1
    THEN Append(right_borders, last_coord)
    ELSE right_borders

\* The end of the loop body for one level: alpha_cuts_list after it, or the
\* error AlphaCut raised.
append_cut(alpha_cuts_list, level, left_borders, right_borders) ==
    IF Len(left_borders) = 0 THEN Ok(alpha_cuts_list)
    ELSE IF cut_of_lists(level, left_borders, right_borders).err # "none"
    THEN Raise(cut_of_lists(level, left_borders, right_borders).err)
    ELSE Ok(Append(alpha_cuts_list, cut_of_lists(level, left_borders, right_borders).val))

\* The body of the loop over the levels, after the loop over the points.
after_sweep(alpha_cuts_list, level, points, swept) ==
    IF swept.err # "none" THEN swept
    ELSE append_cut(alpha_cuts_list, level, swept.val.left_borders,
                    close_run(swept.val.left_borders, swept.val.right_borders,
                              IF Len(points) = 0 THEN 0
                              ELSE points[Len(points)].coord))

RECURSIVE level_loop(_, _, _, _)
\* The loop over alpha_levels from the k-th level on; check_run is TRUE for
\* the first level only.
level_loop(alpha_levels, points, k, r) ==
    IF r.err # "none" \/ k > Len(alpha_levels) THEN r
    ELSE level_loop(alpha_levels, points, k + 1,
            after_sweep(r.val, alpha_levels[k], points,
                sweep_points(points, alpha_levels[k], k = 1, 1, <<>>, <<>>, FALSE)))

from_points(alpha_levels, points) ==
    fuzzy_set_of(level_loop(alpha_levels, points, 1, Ok(<<>>)))

\* ------------------------------------------------------------------
\* SpecFromPoints: one call FuzzySet.from_points(args.alpha_levels,
\* args.points) for up to FMaxLevels levels and up to FMaxPoints samples with
\* coordinates in 0..FCoordMax, in any order and with repetitions.

Samples == { [coord |-> x, value |-> v] : x \in 0..FCoordMax, v \in Levels }

InitFromPoints ==
    /\ NoObject
    /\ \E ls \in SeqsUpTo(Levels, FMaxLevels) : \E ps \in SeqsUpTo(Samples, FMaxPoints) :
          args = [alpha_levels |-> ls, points |-> ps]
    /\ result = <<>>

FromPoints ==
    /\ op = "none"
    /\ op' = "from_points"
    /\ result' = from_points(args.alpha_levels, args.points)
    /\ outcome' = result'.err
    /\ UNCHANGED <<built, alpha_cuts, args, alpha>>

NextFromPoints == FromPoints

SpecFromPoints == InitFromPoints /\ [][NextFromPoints]_vars

\* The x of the samples is strictly increasing.
IncreasingInX(points) ==
    \A i \in 1..(Len(points) - 1) : points[i].coord < points[i + 1].coord

\* C18: from_points(levels, points) raises the 'domain obstructed' error
\* whenever some sample's x is less than or equal to the x of the sample
\* before it, whatever levels are given and wherever that sample is.
C18_UnorderedSamplesRaise ==
    (op = "from_points" /\ ~IncreasingInX(args.points))
        => result.err = DomainObstructed

\* The maximal runs of consecutive samples with membership >= L, each as the
\* pair of the x of its first and of its last sample.
Runs(points, L) ==
    { <<points[i].coord, points[j].coord>> :
        <<i, j>> \in { x \in (1..Len(points)) \X (1..Len(points)) :
            /\ x[1] <= x[2]
            /\ \A k \in x[1]..x[2] : points[k].value >= L
            /\ (x[1] = 1 \/ points[x[1] - 1].value < L)
            /\ (x[2] = Len(points) \/ points[x[2] + 1].value < L) } }

\* The intervals of a cut, as pairs.
IntervalsOf(c) ==
    { <<c.left_borders.borders[k], c.right_borders.borders[k]>> :
        k \in 1..Len(c.left_borders.borders) }

Distinct(s) == \A i, j \in 1..Len(s) : i # j => s[i] # s[j]

\* C19: for samples strictly increasing in x and pairwise distinct levels,
\* from_points returns a FuzzySet with a cut at L exactly for the levels L
\* given that some sample reaches, and the cut at L has one interval
\* [x_first, x_last] for each maximal run of samples with membership >= L, a
\* run open at the end being closed with the x of the last sample.
C19_CutsAreRuns ==
    (op = "from_points" /\ IncreasingInX(args.points) /\ Distinct(args.alpha_levels))
        => /\ result.err = "none"
           /\ LevelsIn(result.map)
                 = { L \in Range(args.alpha_levels) :
                        \E i \in 1..Len(args.points) : args.points[i].value >= L }
           /\ Len(result.map) = Cardinality(LevelsIn(result.map))
           /\ \A k \in 1..Len(result.map) :
                 /\ IntervalsOf(result.map[k]) = Runs(args.points, result.map[k].level)
                 /\ Len(result.map[k].left_borders.borders)
                       = Cardinality(Runs(args.points, result.map[k].level))
                 /\ Len(result.map[k].right_borders.borders)
                       = Len(result.map[k].left_borders.borders)

\* from_points has returned a set of two cuts, the lower one of two intervals
\* whose second is a run that was open at the last sample.
C19_Witness ==
    /\ op = "from_points" /\ result.err = "none"
    /\ IncreasingInX(args.points) /\ Distinct(args.alpha_levels)
    /\ Len(result.map) = 2
    /\ \E k \in 1..2 :
          /\ Len(result.map[k].left_borders.borders) = 2
          /\ result.map[k].right_borders.borders[2] = args.points[Len(args.points)].coord
          /\ args.points[Len(args.points)].value >= result.map[k].level

\* ------------------------------------------------------------------
\* FuzzySet.__eq__(self, other).  other is a FuzzySet or a plain list of
\* AlphaCuts, which is no FuzzySet; alpha_cuts is what it holds.

\* all(acs == aco for acs, aco in zip(self.alpha_cuts, other.alpha_cuts)):
\* zip stops at the end of the shorter list.
all_zipped_equal(self_cuts, other_cuts) ==
    \A k \in 1..(IF Len(self_cuts) < Len(other_cuts) THEN Len(self_cuts)
                                                     ELSE Len(other_cuts)) :
        cut_eq(self_cuts[k], other_cuts[k])

fuzzy_set_eq(self, other) ==
    IF other.kind # "FuzzySet" THEN FALSE
    ELSE all_zipped_equal(self, other.alpha_cuts)

\* SpecEq: one comparison args.self == args.other for every FuzzySet self
\* and every other of ArithSets, taken as a FuzzySet and as a list.

Others ==
    { [kind |-> k, alpha_cuts |-> s] : k \in {"FuzzySet", "list"}, s \in ArithSets }

InitEq ==
    /\ NoObject
    /\ \E a \in ArithSets : \E b \in Others : args = [self |-> a, other |-> b]
    /\ result = <<>>

Eq ==
    /\ op = "none"
    /\ op' = "eq"
    /\ result' = Ok(fuzzy_set_eq(args.self, args.other))
    /\ outcome' = "none"
    /\ UNCHANGED <<built, alpha_cuts, args, alpha>>

NextEq == Eq

SpecEq == InitEq /\ [][NextEq]_vars

\* C20: f == g is true iff f and g hold the same number of cuts and, in
\* descending level order, their cuts are pairwise equal in level, left
\* breakpoints and right breakpoints; f == x is false for an x that is not
\* a FuzzySet.
C20_EqualIffSameCuts ==
    op = "eq"
        => LET f == args.self
               g == args.other.alpha_cuts
           IN  IF args.other.kind = "FuzzySet"
               THEN result.val
                      = /\ Len(f) = Len(g)
                        /\ \A k \in 1..Len(f) :
                              /\ f[k].level = g[k].level
                              /\ f[k].left_borders.borders = g[k].left_borders.borders
                              /\ f[k].right_borders.borders = g[k].right_borders.borders
               ELSE result.val = FALSE

\* ------------------------------------------------------------------
\* FuzzySet.get_points_to_plot(self).  A point Alcs(alpha_level, coord, side)
\* has its coord in units of 1 / Steps, so that left + k * eps for
\* eps = (right - left) / Steps is the integer Steps * left + k * (right - left).
\* The sums are floats: after Steps additions the sum is right up to
\* rounding, and short is the set of the intervals <<left, right>> on which
\* it ends below right.

Steps == 33

Alcs(alpha_level, coord, side) ==
    [alpha_level |-> alpha_level, coord |-> coord, side |-> side]

RECURSIVE inside_points(_, _, _, _, _)
\* while (point := point + eps) < right: retlist.append(Alcs(..., INSIDE)),
\* from the k-th addition on.
inside_points(level, left, right, short, k) ==
    IF left = right \/ k > Steps \/ (k = Steps /\ <<left, right>> \notin short)
    THEN <<>>
    ELSE <<Alcs(level, Steps * left + k * (right - left), "INSIDE")>>
            \o inside_points(level, left, right, short, k + 1)

RECURSIVE get_alcs(_, _, _)
\* AlphaCut.get_alcs(self) from the i-th interval on.
get_alcs(self, short, i) ==
    IF i > Len(self.left_borders.borders) THEN <<>>
    ELSE <<Alcs(self.level, Steps * self.left_borders.borders[i], "LEFT"),
           Alcs(self.level, Steps * self.right_borders.borders[i], "RIGHT")>>
         \o inside_points(self.level, self.left_borders.borders[i],
                          self.right_borders.borders[i], short, 1)
         \o get_alcs(self, short, i + 1)

RECURSIVE get_points_to_plot(_, _, _)
\* FuzzySet.get_points_to_plot(self) from the k-th cut on.
get_points_to_plot(self, short, k) ==
    IF k > Len(self) THEN <<>>
    ELSE get_alcs(self[k], short, 1) \o get_points_to_plot(self, short, k + 1)

\* SpecPlot: one call of get_points_to_plot on every FuzzySet of ArithSets,
\* for every way the float sums can fall.

PlotIntervals == { x \in (0..ACoordMax) \X (0..ACoordMax) : x[1] < x[2] }

InitPlot ==
    /\ NoObject
    /\ \E s \in ArithSets : \E short \in SUBSET PlotIntervals :
          args = [self |-> s, short |-> short]
    /\ result = <<>>

GetPointsToPlot ==
    /\ op = "none"
    /\ op' = "get_points_to_plot"
    /\ result' = Ok(get_points_to_plot(args.self, args.short, 1))
    /\ outcome' = "none"
    /\ UNCHANGED <<built, alpha_cuts, args, alpha>>

NextPlot == GetPointsToPlot

SpecPlot == InitPlot /\ [][NextPlot]_vars

\* The points the claim lists for the interval [l, r] of a cut at level.
PlotOfInterval(level, l, r) ==
    <<Alcs(level, Steps * l, "LEFT"), Alcs(level, Steps * r, "RIGHT")>>
       \o [k \in 1..(Steps - 1) |-> Alcs(level, Steps * l + k * (r - l), "INSIDE")]

RECURSIVE PlotOfCut(_, _)
PlotOfCut(c, i) ==
    IF i > Len(c.left_borders.borders) THEN <<>>
    ELSE PlotOfInterval(c.level, c.left_borders.borders[i], c.right_borders.borders[i])
            \o PlotOfCut(c, i + 1)

RECURSIVE PlotOfSet(_, _)
PlotOfSet(s, k) ==
    IF k > Len(s) THEN <<>> ELSE PlotOfCut(s[k], 1) \o PlotOfSet(s, k + 1)

\* C21: get_points_to_plot returns, for every interval [l, r] of every cut
\* (cuts by descending level, intervals ascending), the point (level, l, Left),
\* then (level, r, Right), then exactly 32 points tagged Inside at
\* l + k * (r - l) / 33 for k = 1..32, each strictly between l and r, also
\* for an interval with l = r.
C21_EndpointsAndInterior ==
    op = "get_points_to_plot"
        => /\ result.val = PlotOfSet(args.self, 1)
           /\ \A n \in 1..Len(result.val) :
                 result.val[n].side = "INSIDE"
                    => \E c \in Range(args.self) : \E i \in 1..Len(c.left_borders.borders) :
                          /\ Steps * c.left_borders.borders[i] < result.val[n].coord
                          /\ result.val[n].coord < Steps * c.right_borders.borders[i]

\* ------------------------------------------------------------------
\* The assignments that the calls make to fields of objects.  A write names
\* its target: an operand of the call ("left", "right", "self", "other") or
\* "new", an object the call created itself.

Write(target, field, value) == [target |-> target, field |-> field, value |-> value]

\* AlphaCut._borders_check, reached when Alpha(level) did not raise: the
\* Borders passed in are the ones the AlphaCut keeps, and a side that is
\* None is assigned on them.
alpha_cut_writes(level, left, right) ==
    IF level \notin Levels THEN <<>>
    ELSE (IF left.side = "NONE" THEN <<Write("left", "side", "LEFT")>> ELSE <<>>)
         \o (IF right.side = "NONE" THEN <<Write("right", "side", "RIGHT")>> ELSE <<>>)

\* AlphaCut.invert: new_right.side and new_left.side are set on the two
\* products, which are new Borders; the AlphaCut is then built from the two
\* Borders uncover returned, whose sides are set.
invert_writes(self) ==
    <<Write("new", "side", "RIGHT"), Write("new", "side", "LEFT")>>

RECURSIVE set_invert_writes(_, _)
\* FuzzySet.invert: the writes of v.invert() for each cut from the k-th on.
set_invert_writes(self, k) ==
    IF k > Len(self) THEN <<>>
    ELSE invert_writes(self[k]) \o set_invert_writes(self, k + 1)

\* tnorm(sac.level, oac.level)(): Lukasiewicz sets small_check on the Alpha
\* v2 it has computed; the other classes assign to no Alpha.
tnorm_writes(name) ==
    IF name = "Lukasiewicz" THEN <<Write("new", "small_check", FALSE)>> ELSE <<>>

RECURSIVE add_writes(_, _, _, _)
\* FuzzySet.add_with_tnorm: for each of the n pairs of cuts from the k-th on
\* the writes of the t-norm, then new_left.side and new_right.side on the
\* two sums, which are new Borders.
add_writes(n, name, k, done) ==
    IF k > n THEN done
    ELSE add_writes(n, name, k + 1,
            done \o tnorm_writes(name)
                 \o <<Write("new", "side", "LEFT"), Write("new", "side", "RIGHT")>>)

RECURSIVE apply_writes(_, _, _)
\* The operands after the writes from the k-th on.
apply_writes(operands, writes, k) ==
    IF k > Len(writes) THEN operands
    ELSE apply_writes(
            IF writes[k].target \in DOMAIN operands
            THEN [operands EXCEPT ![writes[k].target][writes[k].field] = writes[k].value]
            ELSE operands,
            writes, k + 1)

\* SpecFrame: one call of each operation that takes objects which exist
\* already; args.operands are those objects before the call and
\* result.operands the same objects after it.

InitFrame ==
    /\ NoObject
    /\ \/ \E level \in Levels : \E l \in UBorders : \E r \in UBorders :
             args = [name |-> "AlphaCut", level |-> level,
                     operands |-> [left |-> l, right |-> r]]
       \/ \E c \in ArithCuts :
             args = [name |-> "AlphaCut.invert", operands |-> [self |-> c]]
       \/ \E s \in ArithSets :
             args = [name |-> "FuzzySet.invert", operands |-> [self |-> s]]
       \/ \E a \in ArithSets : \E b \in ArithSets : \E t \in Tnorms :
          \E name \in {"add_with_tnorm", "sub_with_tnorm"} :
             args = [name |-> name, tnorm |-> t, operands |-> [self |-> a, other |-> b]]
    /\ result = <<>>

FrameAlphaCut ==
    /\ op = "none" /\ args.name = "AlphaCut"
    /\ op' = "frame"
    /\ outcome' = AlphaCut(args.level, args.operands.left, args.operands.right).err
    /\ result' = [operands |-> apply_writes(args.operands,
                      alpha_cut_writes(args.level, args.operands.left, args.operands.right), 1)]
    /\ UNCHANGED <<built, alpha_cuts, args, alpha>>

FrameCutInvert ==
    /\ op = "none" /\ args.name = "AlphaCut.invert"
    /\ op' = "frame"
    /\ outcome' = invert(args.operands.self).err
    /\ result' = [operands |-> apply_writes(args.operands, invert_writes(args.operands.self), 1)]
    /\ UNCHANGED <<built, alpha_cuts, args, alpha>>

FrameSetInvert ==
    /\ op = "none" /\ args.name = "FuzzySet.invert"
    /\ op' = "frame"
    /\ outcome' = invert_set(args.operands.self).err
    /\ result' = [operands |-> apply_writes(args.operands,
                      set_invert_writes(args.operands.self, 1), 1)]
    /\ UNCHANGED <<built, alpha_cuts, args, alpha>>

FrameAdd ==
    /\ op = "none" /\ args.name = "add_with_tnorm"
    /\ op' = "frame"
    /\ outcome' = add_with_tnorm(args.operands.self, args.operands.other, args.tnorm).err
    /\ result' = [operands |-> apply_writes(args.operands,
                      add_writes(Len(args.operands.self) * Len(args.operands.other),
                                 args.tnorm, 1, <<>>), 1)]
    /\ UNCHANGED <<built, alpha_cuts, args, alpha>>

FrameSub ==
    /\ op = "none" /\ args.name = "sub_with_tnorm"
    /\ op' = "frame"
    /\ outcome' = sub_with_tnorm(args.operands.self, args.operands.other, args.tnorm).err
    /\ result' = [operands |-> apply_writes(args.operands,
                      add_writes(Len(args.operands.self) * Len(args.operands.other),
                                 args.tnorm, 1, set_invert_writes(args.operands.other, 1)), 1)]
    /\ UNCHANGED <<built, alpha_cuts, args, alpha>>

NextFrame == FrameAlphaCut \/ FrameCutInvert \/ FrameSetInvert \/ FrameAdd \/ FrameSub

SpecFrame == InitFrame /\ [][NextFrame]_vars

\* C22: constructing an AlphaCut from Borders that exist, AlphaCut.invert,
\* FuzzySet.invert, add_with_tnorm and sub_with_tnorm leave their operands
\* as they were: breakpoints, role tag, covered flag, level and level map.
C22_OperandsUnchanged ==
    op = "frame" => result.operands = args.operands

\* ------------------------------------------------------------------
\* SpecContains: one test `narrow in wide` (wide.is_wider(narrow)) for every
\* two valid AlphaCuts args.narrow and args.wide.

InitContains ==
    /\ NoObject
    /\ \E n \in Cuts : \E w \in Cuts : args = [narrow |-> n, wide |-> w]
    /\ result = <<>>

Contains ==
    /\ op = "none"
    /\ op' = "contains"
    /\ result' = Ok(contains(args.wide, args.narrow))
    /\ outcome' = "none"
    /\ UNCHANGED <<built, alpha_cuts, args, alpha>>

NextContains == Contains

SpecContains == InitContains /\ [][NextContains]_vars

\* C23: `narrow in wide` is false if narrow.left[0] < wide.left[0];
\* otherwise it is true iff for every interval (l, r) of narrow
\* r <= wide.right[k], where k is the first index with wide.left[k] >= l, or
\* the last index of wide when there is none.
C23_ContainsRule ==
    op = "contains"
        => LET nl == args.narrow.left_borders.borders
               nr == args.narrow.right_borders.borders
               wl == args.wide.left_borders.borders
               wr == args.wide.right_borders.borders
           IN  IF nl[1] < wl[1] THEN result.val = FALSE
               ELSE result.val
                      = \A i \in 1..Len(nl) :
                           \/ \E k \in 1..Len(wl) :
                                 /\ wl[k] >= nl[i]
                                 /\ \A j \in 1..(k - 1) : wl[j] < nl[i]
                                 /\ nr[i] <= wr[k]
                           \/ /\ \A k \in 1..Len(wl) : wl[k] < nl[i]
                              /\ nr[i] <= wr[Len(wr)]

\* A narrow that starts after every left breakpoint of a wide of two
\* intervals has been found inside it, by the last interval of wide.
C23_Witness ==
    /\ op = "contains" /\ result.val = TRUE
    /\ Len(args.wide.left_borders.borders) = 2
    /\ \A k \in 1..2 : args.wide.left_borders.borders[k] < args.narrow.left_borders.borders[1]

\* C28: the containment test has no false negatives: if every point of
\* narrow lies in wide then `narrow in wide` is true, and `c in c` is true
\* for every AlphaCut c.
C28_NoFalseNegative ==
    op = "contains"
        => /\ PointSubset(args.narrow, args.wide) => result.val = TRUE
           /\ cut_eq(args.narrow, args.wide) => result.val = TRUE

\* ------------------------------------------------------------------
\* SpecRemove: self.remove_alpha_cut(args.level) on every FuzzySet built
\* from at most MaxBuild cuts, for a level passed as a number or as an Alpha.

StoredSets ==
    {FuzzySet(cs).map : cs \in {x \in BuildArgs : FuzzySet(x).err = "none"}}

InitRemove ==
    /\ built = TRUE
    /\ op = "none"
    /\ outcome = "none"
    /\ alpha = <<>>
    /\ result = <<>>
    /\ \E s \in StoredSets : \E level \in RemoveLevels : \E is_alpha \in BOOLEAN :
          /\ args = [stored |-> s, level |-> level, is_alpha |-> is_alpha]
          /\ alpha_cuts = s

\* self.remove_alpha_cut(level): result is the _alpha_cuts of the object the
\* call returned, which is self.
Remove ==
    /\ op = "none"
    /\ LET r == remove_alpha_cut(alpha_cuts, args.level, args.is_alpha)
       IN  /\ alpha_cuts' = r.map
           /\ op' = "remove"
           /\ outcome' = r.err
           /\ result' = IF r.err = "none" THEN Ok(r.map) ELSE Raise(r.err)
    /\ UNCHANGED <<built, args, alpha>>

NextRemove == Remove

SpecRemove == InitRemove /\ [][NextRemove]_vars

\* After a removal that returned, the dict is the one before the call
\* without the entry of the level: the other entries are the same and in the
\* same order, and the returned object holds that dict.
RemovedExactly ==
    \E i \in 1..Len(args.stored) :
        /\ args.stored[i].level = args.level
        /\ alpha_cuts = SubSeq(args.stored, 1, i - 1) \o SubSeq(args.stored, i + 1, Len(args.stored))
        /\ result.val = alpha_cuts

\* C27 as stated: remove_alpha_cut(level) raises the not-found error iff
\* level is not a stored level; when it returns it has removed exactly the
\* cut of that level, the other entries and their order are unchanged, and
\* the object returned is the one it was called on.
C27_NotFoundIffAbsent ==
    op = "remove"
        => /\ (outcome = NotFound) = (args.level \notin LevelsIn(args.stored))
           /\ (outcome = "none") = (args.level \in LevelsIn(args.stored))
           /\ outcome = "none" => RemovedExactly

\* C27 as amended: for a level passed as a number outside [0, 1]
\* remove_alpha_cut raises the range error of Alpha; for every other level it
\* raises the not-found error iff the level is not stored; when it returns
\* it has removed exactly the cut of that level, the other entries and their
\* order are unchanged, and the object returned is the one it was called on.
C27_NotFoundIffAbsentInRange ==
    op = "remove"
        => /\ (outcome = RangeError) = (~args.is_alpha /\ args.level \notin Levels)
           /\ (outcome = NotFound)
                 = (/\ args.is_alpha \/ args.level \in Levels
                    /\ args.level \notin LevelsIn(args.stored))
           /\ (outcome = "none") = (args.level \in LevelsIn(args.stored))
           /\ outcome = "none" => RemovedExactly

\* The middle one of three cuts has been removed.
C27_Witness ==
    /\ op = "remove" /\ outcome = "none"
    /\ Len(args.stored) = 3
    /\ args.stored[2].level = args.level
    /\ Len(alpha_cuts) = 2

\* ------------------------------------------------------------------
\* SpecSetInvert: S.invert() and A.sub_with_tnorm(S, T) for every FuzzySet S
\* built from at most MaxBuild cuts, with A the set of the cut [0, 1] at
\* level 1.

InitSetInvert ==
    /\ NoObject
    /\ \E s \in StoredSets : \E t \in Tnorms : args = [self |-> s, tnorm |-> t]
    /\ result = <<>>

SetInvert ==
    /\ op = "none"
    /\ op' = "invert"
    /\ result' = invert_set(args.self)
    /\ outcome' = result'.err
    /\ UNCHANGED <<built, alpha_cuts, args, alpha>>

SubtractSet ==
    /\ op = "none"
    /\ op' = "sub_with_tnorm"
    /\ result' = sub_with_tnorm(UnitSet, args.self, args.tnorm)
    /\ outcome' = result'.err
    /\ UNCHANGED <<built, alpha_cuts, args, alpha>>

NextSetInvert == SetInvert \/ SubtractSet

SpecSetInvert == InitSetInvert /\ [][NextSetInvert]_vars

\* The cut c holds exactly the points -x for x a point of the cut d.
Reflection(c, d) ==
    \A p \in (-2 * CoordMax)..(2 * CoordMax) : HoldsHalf(c, p) = HoldsHalf(d, -p)

\* C29: for every FuzzySet S that was constructed, S.invert() returns
\* without error a FuzzySet with exactly the levels of S whose cut at each
\* level is the reflection through 0 of the cut of S at that level; so
\* A.sub_with_tnorm(S, T) never fails by the inversion of S.
C29_SetInvertReturns ==
    /\ op = "invert"
          => /\ result.err = "none"
             /\ Len(result.map) = Len(args.self)
             /\ \A k \in 1..Len(args.self) :
                   \E j \in 1..Len(result.map) :
                      /\ result.map[j].level = args.self[k].level
                      /\ Reflection(result.map[j], args.self[k])
    /\ op = "sub_with_tnorm"
          => (result.err # "none" => invert_set(args.self).err = "none")

\* ------------------------------------------------------------------
\* SpecAddMin: A.add_with_tnorm(B, Min) for every FuzzySet A built from at
\* most MaxBuild cuts and every FuzzySet B built from at most AMaxCuts cuts
\* over 0..ACoordMax, all of float breakpoints.

InitAddMin ==
    /\ NoObject
    /\ \E a \in StoredSets : \E b \in ArithSets : args = [self |-> a, other |-> b]
    /\ result = <<>>

AddWithMin ==
    /\ op = "none"
    /\ op' = "add_with_tnorm"
    /\ result' = add_with_tnorm(args.self, args.other, "Min")
    /\ outcome' = result'.err
    /\ UNCHANGED <<built, alpha_cuts, args, alpha>>

NextAddMin == AddWithMin

SpecAddMin == InitAddMin /\ [][NextAddMin]_vars

\* C30: for any two constructed FuzzySets A and B of one representation,
\* A.add_with_tnorm(B, Min) does not raise, and the FuzzySet it returns
\* passes the nesting check.
C30_AddMinNeverRaises ==
    op = "add_with_tnorm"
        => /\ result.err = "none"
           /\ check_alpha_levels_membership(result.map)

=============================================================================
